---------------------------- MODULE Spec2Model ----------------------------
(***************************************************************************)
(* A model of the zhttp routing core: the radix tree (radix_tree.h/.cc),   *)
(* the router and its dispatch (router.h/.cc), the middleware chain and    *)
(* the server builder (http_server_builder.h/.cc).                         *)
(*                                                                         *)
(* A path or a name is a sequence of one-character strings, so that        *)
(* splitting, classifying and matching are computed character by           *)
(* character as the code computes them.                                    *)
(***************************************************************************)
EXTENDS Integers, Sequences, FiniteSets, TLC

VARIABLES
    root_,        \* RadixTree::root_ : the tree, a nested node record
    nins,         \* number of RadixTree::insert calls made so far
    registered,   \* history: the (method, path) pairs given to insert
    query,        \* the path given to the last RadixTree::find
    result,       \* the RouteMatch the last RadixTree::find returned
    routes_,            \* Router::routes_ : the route table
    middlewares_,       \* Router::middlewares_ : the global middlewares
    not_found_handler_, \* Router::not_found_handler_
    request,      \* the HttpRequest of the dispatch in progress
    response,     \* the HttpResponse of the dispatch in progress
    events,       \* the hooks and handlers the dispatch invoked, in order
    returned,     \* how Router::route ended: "none" (no dispatch), "true",
                  \* "false", or "exception" (route was left without
                  \* returning)
    dispatched,   \* history: entry found, chain built, hooks made to refuse
    latest,       \* history: the handler of the last registration of each
                  \* (method, path), in the tree and in the router
    builder,      \* the HttpServerBuilder: its fields
    server,       \* the handle the last build() returned, whether start()
                  \* was called on it, and history: what bind answered, the
                  \* configuration build was called with, the calls made on
                  \* the server, in order, and how many build() calls in a
                  \* row (2 for more) gave a server since the builder was
                  \* last given a setting, and the scheduler that build()
                  \* created: "none", or "started"
    run_pc        \* where the caller of build()/run() is: "none", "built"
                  \* (build returned), "returned" (run returned), "waiting"
                  \* (run is in its wait loop), "exited" (the process is gone)

treeVars == <<root_, nins, registered, query, result>>

routerVars == <<routes_, middlewares_, not_found_handler_>>

requestVars == <<request, response, events, returned, dispatched>>

builderVars == <<builder, server, run_pc>>

vars == <<root_, nins, registered, query, result,
          routes_, middlewares_, not_found_handler_,
          request, response, events, returned, dispatched,
          latest, builder, server, run_pc>>

-----------------------------------------------------------------------------
(* Bounds of the model *)

MaxInserts == 3

-----------------------------------------------------------------------------
(* enum class NodeType : uint8_t *)

STATIC == 0
PARAM == 1
CATCH_ALL == 2

-----------------------------------------------------------------------------
(* Paths used as inputs *)

P_root == <<"/">>
P_a_b == <<"/", "a", "/", "b">>
P_a_c == <<"/", "a", "/", "c">>
P_a_ == <<"/", "a", "/">>
P_a_b_s == <<"/", "a", "/", "b", "/">>
P_a__b == <<"/", "a", "/", "/", "b">>
P_ss == <<"/", "/">>
P_a_px == <<"/", "a", "/", ":", "x">>
P_a_sr == <<"/", "a", "/", "*", "r">>
P_a_py == <<"/", "a", "/", ":", "y">>
P_a_ss == <<"/", "a", "/", "*", "s">>
P_a_px_c == <<"/", "a", "/", ":", "x", "/", "c">>
P_a_py_c == <<"/", "a", "/", ":", "y", "/", "c">>
P_a_b_d == <<"/", "a", "/", "b", "/", "d">>
P_a_b_c == <<"/", "a", "/", "b", "/", "c">>
P_star == <<"/", "*">>
P_files_rest == <<"/", "f", "i", "l", "e", "s", "/", "*", "r", "e", "s", "t">>
P_files_a_b_c == <<"/", "f", "i", "l", "e", "s", "/", "a", "/", "b", "/", "c">>
P_files_ == <<"/", "f", "i", "l", "e", "s", "/">>
P_zz == <<"/", "z", "z">>
P_t == <<"/", "t">>
P_x == <<"/", "x">>
P_data == <<"/", "d", "a", "t", "a">>
P_pid == <<"/", ":", "i", "d">>
P_users_id_posts_pid == <<"/", "u", "s", "e", "r", "s", "/", ":", "i", "d",
                          "/", "p", "o", "s", "t", "s", "/", ":", "p", "i", "d">>
P_users_u_posts_pid == <<"/", "u", "s", "e", "r", "s", "/", ":", "u",
                         "/", "p", "o", "s", "t", "s", "/", ":", "p", "i", "d">>
P_users_42_posts_7 == <<"/", "u", "s", "e", "r", "s", "/", "4", "2",
                        "/", "p", "o", "s", "t", "s", "/", "7">>

\* Regular expressions used as inputs: the literal /data and /([^/]+)
R_data == <<"/", "d", "a", "t", "a">>
R_seg == <<"/", "(", "[", "^", "/", "]", "+", ")">>

TreeRoutes == {P_a_b, P_a_px, P_a_sr, P_a_px_c, P_a_b_d, P_star, P_files_rest}

TreeRequests == {P_root, P_a_b, P_a_c, P_a_, P_a_b_c, P_a_b_d,
                 P_files_a_b_c, P_files_, P_zz}

Methods == {"GET", "POST"}

TreeHandlers == {"h1"}

-----------------------------------------------------------------------------
(* RadixTree::split_path : std::getline on '/', empty segments dropped *)

RECURSIVE split_from(_, _, _, _)
split_from(path, pos, segment, segments) ==
    IF pos > Len(path)
    THEN IF segment # <<>> THEN Append(segments, segment) ELSE segments
    ELSE IF path[pos] = "/"
         THEN split_from(path, pos + 1, <<>>,
                         IF segment # <<>> THEN Append(segments, segment)
                                           ELSE segments)
         ELSE split_from(path, pos + 1, Append(segment, path[pos]), segments)

split_path(path) == split_from(path, 1, <<>>, <<>>)

(* RadixTree::parse_segment : the node type and the parameter name *)
parse_segment(seg) ==
    IF seg = <<>> THEN [type |-> STATIC, name |-> seg]
    ELSE IF seg[1] = ":" THEN [type |-> PARAM, name |-> Tail(seg)]
    ELSE IF seg[1] = "*"
         THEN [type |-> CATCH_ALL,
               name |-> IF Len(seg) > 1 THEN Tail(seg) ELSE <<>>]
    ELSE [type |-> STATIC, name |-> seg]

-----------------------------------------------------------------------------
(* RadixNode *)

EmptyHandlers == [m \in {} |-> "h1"]

\* RadixNode() : a default-constructed node
NewNode == [path_ |-> <<>>, type_ |-> STATIC, param_name_ |-> <<>>,
            children_ |-> <<>>, handlers_ |-> EmptyHandlers]

is_leaf(node) == DOMAIN node.handlers_ # {}

\* std::lower_bound over children_ by type_: the first position whose
\* node is not less than the new child
lower_bound(children, child) ==
    LET notLess == {i \in 1..Len(children) :
                        ~(children[i].type_ < child.type_)}
    IN IF notLess = {} THEN Len(children) + 1
       ELSE CHOOSE i \in notLess : \A j \in notLess : i <= j

InsertAtPos(s, pos, e) ==
    [i \in 1..(Len(s) + 1) |->
        IF i < pos THEN s[i] ELSE IF i = pos THEN e ELSE s[i - 1]]

\* Mutant: the child is appended, whatever its type
add_child_append(children, child) == Append(children, child)

\* RadixNode::add_child : the children_ after the insertion
add_child(children, child) ==
    InsertAtPos(children, lower_bound(children, child), child)

FirstIndex(S) == IF S = {} THEN 0 ELSE CHOOSE i \in S : \A j \in S : i <= j

\* RadixNode::find_static_child : index into children_, 0 for nullptr
find_static_child(node, segment) ==
    FirstIndex({i \in 1..Len(node.children_) :
                    /\ node.children_[i].type_ = STATIC
                    /\ node.children_[i].path_ = segment})

\* RadixNode::find_param_child
find_param_child(node) ==
    FirstIndex({i \in 1..Len(node.children_) :
                    node.children_[i].type_ = PARAM})

\* RadixNode::find_catch_all_child
find_catch_all_child(node) ==
    FirstIndex({i \in 1..Len(node.children_) :
                    node.children_[i].type_ = CATCH_ALL})

-----------------------------------------------------------------------------
(* RadixTree::insert *)

SetHandler(handlers, method, handler) ==
    [m \in DOMAIN handlers \cup {method} |->
        IF m = method THEN handler ELSE handlers[m]]

\* The child insert looks up for a segment of the given type
find_child_of_type(node, type, seg) ==
    IF type = STATIC THEN find_static_child(node, seg)
    ELSE IF type = PARAM THEN find_param_child(node)
    ELSE find_catch_all_child(node)

\* The node insert creates for a segment when no child was found
create_child(seg, parsed) ==
    [NewNode EXCEPT !.type_ = parsed.type,
                    !.path_ = seg,
                    !.param_name_ = IF parsed.type = STATIC THEN <<>>
                                    ELSE parsed.name]

\* The loop of insert from segment i on, as the node `current` becomes
RECURSIVE insert_from(_, _, _, _, _)
insert_from(current, segments, i, method, handler) ==
    IF i > Len(segments)
    THEN [current EXCEPT
            !.handlers_ = SetHandler(current.handlers_, method, handler)]
    ELSE LET seg == segments[i]
             parsed == parse_segment(seg)
             found == find_child_of_type(current, parsed.type, seg)
         IN IF found # 0
            THEN [current EXCEPT !.children_[found] =
                    insert_from(current.children_[found], segments, i + 1,
                                method, handler)]
            ELSE LET child == insert_from(create_child(seg, parsed),
                                          segments, i + 1, method, handler)
                 IN [current EXCEPT
                        !.children_ = add_child(current.children_, child)]

insert(root, method, path, handler) ==
    insert_from(root, split_path(path), 1, method, handler)

-----------------------------------------------------------------------------
(* RadixTree::find and RadixTree::match_recursive.                         *)
(* A RadixNodePtr is the sequence of child indices leading from the root   *)
(* to the node; NullNode is the null pointer.                              *)

NullNode == <<0>>

EmptyParams == [n \in {} |-> <<>>]

\* RouteMatch result;
NewRouteMatch == [found |-> FALSE, node |-> NullNode, params |-> EmptyParams]

\* result.params[name] = value
SetParam(params, name, value) ==
    [n \in DOMAIN params \cup {name} |->
        IF n = name THEN value ELSE params[n]]

RECURSIVE NodeAt(_, _)
NodeAt(root, ptr) ==
    IF ptr = <<>> THEN root
    ELSE NodeAt(root.children_[Head(ptr)], Tail(ptr))

\* The remaining segments joined by '/'
RECURSIVE remaining_from(_, _, _)
remaining_from(segments, i, remaining) ==
    IF i > Len(segments) THEN remaining
    ELSE remaining_from(segments, i + 1,
            (IF remaining # <<>> THEN Append(remaining, "/") ELSE remaining)
                \o segments[i])

\* The catch-all step of match_recursive (priority 3)
match_catch_all(root, ptr, segments, index, res) ==
    LET node == NodeAt(root, ptr)
        ci == find_catch_all_child(node)
    IN IF ci # 0 /\ is_leaf(node.children_[ci])
       THEN LET catch_all == node.children_[ci]
                remaining == remaining_from(segments, index, <<>>)
            IN [ok |-> TRUE,
                res |-> [found |-> TRUE,
                         node |-> Append(ptr, ci),
                         params |->
                            IF catch_all.param_name_ # <<>>
                            THEN SetParam(res.params, catch_all.param_name_,
                                          remaining)
                            ELSE res.params]]
       ELSE [ok |-> FALSE, res |-> res]

RECURSIVE match_recursive(_, _, _, _, _)

\* Mutant: the PARAM child is tried before the STATIC child
match_recursive_param_first(root, ptr, segments, index, res) ==
    LET node == NodeAt(root, ptr)
    IN IF index > Len(segments)
       THEN IF is_leaf(node)
            THEN [ok |-> TRUE,
                  res |-> [res EXCEPT !.found = TRUE, !.node = ptr]]
            ELSE [ok |-> FALSE, res |-> res]
       ELSE LET seg == segments[index]
                pi == find_param_child(node)
                p == IF pi # 0
                     THEN match_recursive(root, Append(ptr, pi), segments,
                                          index + 1, res)
                     ELSE [ok |-> FALSE, res |-> res]
            IN IF p.ok
               THEN [ok |-> TRUE,
                     res |-> [p.res EXCEPT !.params =
                        SetParam(p.res.params,
                                 node.children_[pi].param_name_, seg)]]
               ELSE LET si == find_static_child(node, seg)
                        s == IF si # 0
                             THEN match_recursive(root, Append(ptr, si),
                                                  segments, index + 1, p.res)
                             ELSE [ok |-> FALSE, res |-> p.res]
                    IN IF s.ok THEN s
                       ELSE match_catch_all(root, ptr, segments, index, s.res)

\* Mutant: no backtracking, a STATIC child that exists decides the match
match_recursive_no_backtrack(root, ptr, segments, index, res) ==
    LET node == NodeAt(root, ptr)
    IN IF index > Len(segments)
       THEN IF is_leaf(node)
            THEN [ok |-> TRUE,
                  res |-> [res EXCEPT !.found = TRUE, !.node = ptr]]
            ELSE [ok |-> FALSE, res |-> res]
       ELSE LET seg == segments[index]
                si == find_static_child(node, seg)
            IN IF si # 0
               THEN match_recursive(root, Append(ptr, si), segments,
                                    index + 1, res)
               ELSE LET pi == find_param_child(node)
                        p == IF pi # 0
                             THEN match_recursive(root, Append(ptr, pi),
                                                  segments, index + 1, res)
                             ELSE [ok |-> FALSE, res |-> res]
                    IN IF p.ok
                       THEN [ok |-> TRUE,
                             res |-> [p.res EXCEPT !.params =
                                SetParam(p.res.params,
                                         node.children_[pi].param_name_,
                                         seg)]]
                       ELSE match_catch_all(root, ptr, segments, index, p.res)

\* Mutant: the parameter is bound before the PARAM subtree is explored
match_recursive_eager_bind(root, ptr, segments, index, res) ==
    LET node == NodeAt(root, ptr)
    IN IF index > Len(segments)
       THEN IF is_leaf(node)
            THEN [ok |-> TRUE,
                  res |-> [res EXCEPT !.found = TRUE, !.node = ptr]]
            ELSE [ok |-> FALSE, res |-> res]
       ELSE LET seg == segments[index]
                si == find_static_child(node, seg)
                s == IF si # 0
                     THEN match_recursive(root, Append(ptr, si), segments,
                                          index + 1, res)
                     ELSE [ok |-> FALSE, res |-> res]
            IN IF s.ok THEN s
               ELSE LET pi == find_param_child(node)
                        bound == IF pi # 0
                                 THEN [s.res EXCEPT !.params =
                                        SetParam(s.res.params,
                                            node.children_[pi].param_name_,
                                            seg)]
                                 ELSE s.res
                        p == IF pi # 0
                             THEN match_recursive(root, Append(ptr, pi),
                                                  segments, index + 1, bound)
                             ELSE [ok |-> FALSE, res |-> bound]
                    IN IF p.ok THEN p
                       ELSE match_catch_all(root, ptr, segments, index, p.res)

\* match_recursive: [ok |-> the returned bool, res |-> result afterwards]
match_recursive(root, ptr, segments, index, res) ==
    LET node == NodeAt(root, ptr)
    IN IF index > Len(segments)
       THEN IF is_leaf(node)
            THEN [ok |-> TRUE,
                  res |-> [res EXCEPT !.found = TRUE, !.node = ptr]]
            ELSE [ok |-> FALSE, res |-> res]
       ELSE LET seg == segments[index]
                si == find_static_child(node, seg)
                s == IF si # 0
                     THEN match_recursive(root, Append(ptr, si), segments,
                                          index + 1, res)
                     ELSE [ok |-> FALSE, res |-> res]
            IN IF s.ok THEN s
               ELSE LET pi == find_param_child(node)
                        p == IF pi # 0
                             THEN match_recursive(root, Append(ptr, pi),
                                                  segments, index + 1, s.res)
                             ELSE [ok |-> FALSE, res |-> s.res]
                    IN IF p.ok
                       THEN [ok |-> TRUE,
                             res |-> [p.res EXCEPT !.params =
                                SetParam(p.res.params,
                                         node.children_[pi].param_name_,
                                         seg)]]
                       ELSE match_catch_all(root, ptr, segments, index, p.res)

\* Mutant: the root path is found because the root node exists
find_root_exists(root, path) ==
    LET segments == split_path(path)
    IN IF segments = <<>>
       THEN [NewRouteMatch EXCEPT !.found = TRUE, !.node = <<>>]
       ELSE match_recursive(root, <<>>, segments, 1, NewRouteMatch).res

\* RadixTree::find
find(root, path) ==
    LET segments == split_path(path)
    IN IF segments = <<>>
       THEN IF is_leaf(root)
            THEN [NewRouteMatch EXCEPT !.found = TRUE, !.node = <<>>]
            ELSE NewRouteMatch
       ELSE match_recursive(root, <<>>, segments, 1, NewRouteMatch).res

-----------------------------------------------------------------------------
(* Bounds of the router model *)

MaxRoutes == 2

MaxGlobalMw == 2

MaxRouteMw == 1

-----------------------------------------------------------------------------
(* Router: registration (router.cc) *)

\* Router::has_param : path.find(':') != npos
has_param(path) == \E i \in 1..Len(path) : path[i] = ":"

\* The end of the parameter name that starts after position pos
RECURSIVE param_end(_, _)
param_end(path, end) ==
    IF end <= Len(path) /\ path[end] # "/" THEN param_end(path, end + 1)
    ELSE end

\* Router::build_param_regex. The regex is a sequence of tokens: "group"
\* for ([^/]+) and a character for that (escaped) literal character.
RECURSIVE build_from(_, _, _, _)
build_from(path, pos, regex, param_names) ==
    IF pos > Len(path) THEN [regex |-> regex, param_names |-> param_names]
    ELSE IF path[pos] = ":"
         THEN LET end == param_end(path, pos + 1)
              IN build_from(path, end,
                            Append(regex, [group |-> TRUE, c |-> ""]),
                            Append(param_names,
                                   SubSeq(path, pos + 1, end - 1)))
         ELSE build_from(path, pos + 1,
                         Append(regex, [group |-> FALSE, c |-> path[pos]]),
                         param_names)

build_param_regex(path) == build_from(path, 1, <<>>, <<>>)

\* RouteEntry of add_route_internal and use(path, middleware)
NewEntry(path) ==
    IF has_param(path)
    THEN LET built == build_param_regex(path)
         IN [type |-> "PARAM", pattern |-> path, regex |-> built.regex,
             param_names |-> built.param_names,
             handlers |-> EmptyHandlers, middlewares |-> <<>>]
    ELSE [type |-> "STATIC", pattern |-> path, regex |-> <<>>,
          param_names |-> <<>>,
          handlers |-> EmptyHandlers, middlewares |-> <<>>]

\* The first entry whose pattern equals path, 0 when there is none
find_pattern(routes, path) ==
    FirstIndex({i \in 1..Len(routes) : routes[i].pattern = path})

\* Mutant: a handler already registered for the method is kept
add_route_internal_keep_first(routes, method, path, wrapper) ==
    LET i == find_pattern(routes, path)
    IN IF i # 0
       THEN IF method \in DOMAIN routes[i].handlers THEN routes
            ELSE [routes EXCEPT ![i].handlers =
                    SetHandler(routes[i].handlers, method, wrapper)]
       ELSE Append(routes,
                   [NewEntry(path) EXCEPT
                        !.handlers = SetHandler(EmptyHandlers, method,
                                                wrapper)])

\* Router::add_route_internal : the routes_ afterwards
add_route_internal(routes, method, path, wrapper) ==
    LET i == find_pattern(routes, path)
    IN IF i # 0
       THEN [routes EXCEPT ![i].handlers =
                SetHandler(routes[i].handlers, method, wrapper)]
       ELSE Append(routes,
                   [NewEntry(path) EXCEPT
                        !.handlers = SetHandler(EmptyHandlers, method,
                                                wrapper)])

\* std::regex(regex_pattern) for the regular expressions of the model, which
\* are made of literal characters and ([^/]+) groups: the same tokens as
\* build_param_regex gives
RECURSIVE compile_from(_, _, _)
compile_from(pattern, pos, regex) ==
    IF pos > Len(pattern) THEN regex
    ELSE IF /\ pos + 6 <= Len(pattern)
            /\ SubSeq(pattern, pos, pos + 6)
                    = <<"(", "[", "^", "/", "]", "+", ")">>
         THEN compile_from(pattern, pos + 7,
                           Append(regex, [group |-> TRUE, c |-> ""]))
         ELSE compile_from(pattern, pos + 1,
                           Append(regex, [group |-> FALSE, c |-> pattern[pos]]))

regex_compile(pattern) == compile_from(pattern, 1, <<>>)

\* The first REGEX entry whose pattern equals regex_pattern, 0 when there
\* is none
find_regex_pattern(routes, regex_pattern) ==
    FirstIndex({i \in 1..Len(routes) :
                    /\ routes[i].type = "REGEX"
                    /\ routes[i].pattern = regex_pattern})

\* Router::add_regex_route_internal : the routes_ afterwards
add_regex_route_internal(routes, method, regex_pattern, param_names, wrapper) ==
    LET i == find_regex_pattern(routes, regex_pattern)
    IN IF i # 0
       THEN [routes EXCEPT ![i].handlers =
                SetHandler(routes[i].handlers, method, wrapper)]
       ELSE Append(routes,
                   [type |-> "REGEX", pattern |-> regex_pattern,
                    regex |-> regex_compile(regex_pattern),
                    param_names |-> param_names,
                    handlers |-> SetHandler(EmptyHandlers, method, wrapper),
                    middlewares |-> <<>>])

\* Router::use(path, middleware) : the routes_ afterwards
use_path(routes, path, middleware) ==
    LET i == find_pattern(routes, path)
    IN IF i # 0
       THEN [routes EXCEPT ![i].middlewares =
                Append(routes[i].middlewares, middleware)]
       ELSE Append(routes,
                   [NewEntry(path) EXCEPT !.middlewares = <<middleware>>])

-----------------------------------------------------------------------------
(* Router: matching (router.cc) *)

\* Router::match_static_route
match_static_route(path, entry) == path = entry.pattern

\* The longest run of characters other than '/' from position pos
RECURSIVE run_length(_, _)
run_length(path, pos) ==
    IF pos <= Len(path) /\ path[pos] # "/"
    THEN 1 + run_length(path, pos + 1)
    ELSE 0

\* std::regex_match of the whole path against the token regex from token
\* ti and position pos on: [ok, groups]. try_group is ([^/]+) taking n
\* characters, the most first (greedy, with backtracking).
RECURSIVE regex_match_from(_, _, _, _)
RECURSIVE try_group(_, _, _, _, _)
try_group(regex, ti, path, pos, n) ==
    IF n = 0 THEN [ok |-> FALSE, groups |-> <<>>]
    ELSE LET rest == regex_match_from(regex, ti + 1, path, pos + n)
         IN IF rest.ok
            THEN [ok |-> TRUE,
                  groups |-> <<SubSeq(path, pos, pos + n - 1)>> \o rest.groups]
            ELSE try_group(regex, ti, path, pos, n - 1)

regex_match_from(regex, ti, path, pos) ==
    IF ti > Len(regex)
    THEN [ok |-> pos > Len(path), groups |-> <<>>]
    ELSE IF regex[ti].group
         THEN try_group(regex, ti, path, pos, run_length(path, pos))
         ELSE IF pos <= Len(path) /\ path[pos] = regex[ti].c
              THEN regex_match_from(regex, ti + 1, path, pos + 1)
              ELSE [ok |-> FALSE, groups |-> <<>>]

regex_match(path, regex) == regex_match_from(regex, 1, path, 1)

\* The parameter loop of match_regex_route: params[param_names[i]] = match[i+1]
RECURSIVE extract_params(_, _, _, _)
extract_params(param_names, groups, i, params) ==
    IF i <= Len(param_names) /\ i <= Len(groups)
    THEN extract_params(param_names, groups, i + 1,
                        SetParam(params, param_names[i], groups[i]))
    ELSE params

\* Router::match_regex_route : [ok, params afterwards]
match_regex_route(path, entry, params) ==
    LET m == regex_match(path, entry.regex)
    IN IF m.ok
       THEN [ok |-> TRUE,
             params |-> extract_params(entry.param_names, m.groups, 1, params)]
       ELSE [ok |-> FALSE, params |-> params]

RECURSIVE scan_routes(_, _, _, _, _, _)

\* Mutant: an entry that matches the path is returned whatever its methods
scan_routes_any_method(routes, i, type, path, method, params) ==
    IF i > Len(routes) THEN [entry |-> 0, params |-> params]
    ELSE IF routes[i].type # type
         THEN scan_routes(routes, i + 1, type, path, method, params)
         ELSE IF type = "STATIC"
              THEN IF match_static_route(path, routes[i])
                   THEN [entry |-> i, params |-> params]
                   ELSE scan_routes(routes, i + 1, type, path, method, params)
              ELSE LET m == match_regex_route(path, routes[i], params)
                   IN IF m.ok
                      THEN [entry |-> i, params |-> m.params]
                      ELSE scan_routes(routes, i + 1, type, path, method,
                                       m.params)

\* One loop of find_route over the entries of a type from entry i on:
\* [entry |-> index of the entry returned or 0, params |-> params afterwards]
scan_routes(routes, i, type, path, method, params) ==
    IF i > Len(routes) THEN [entry |-> 0, params |-> params]
    ELSE IF routes[i].type # type
         THEN scan_routes(routes, i + 1, type, path, method, params)
         ELSE IF type = "STATIC"
              THEN IF /\ match_static_route(path, routes[i])
                      /\ method \in DOMAIN routes[i].handlers
                   THEN [entry |-> i, params |-> params]
                   ELSE scan_routes(routes, i + 1, type, path, method, params)
              ELSE LET m == match_regex_route(path, routes[i], params)
                   IN IF m.ok /\ method \in DOMAIN routes[i].handlers
                      THEN [entry |-> i, params |-> m.params]
                      ELSE scan_routes(routes, i + 1, type, path, method,
                                       m.params)

\* Router::find_route : static routes, then parameter routes, then regex
\* routes
find_route(routes, path, method, params) ==
    LET s == scan_routes(routes, 1, "STATIC", path, method, params)
    IN IF s.entry # 0 THEN s
       ELSE LET p == scan_routes(routes, 1, "PARAM", path, method, s.params)
            IN IF p.entry # 0 THEN p
               ELSE scan_routes(routes, 1, "REGEX", path, method, p.params)

-----------------------------------------------------------------------------
(* Middleware, MiddlewareChain, handlers and HttpResponse: middleware.h,   *)
(* http_response.h and the user's callbacks are not among the sources;     *)
(* they are modelled from the specification (4.4, 6) and from the hooks    *)
(* and callbacks of the tests and examples.                                *)

\* HttpResponse() : a fresh response
NewResponse == [status |-> 200, content_type |-> "", body |-> ""]

\* Middleware::before of middleware mw: a hook made to refuse sets status
\* 401 and returns false, any other returns true
mw_before(mw, deny, resp) ==
    IF mw \in deny
    THEN [continue |-> FALSE, resp |-> [resp EXCEPT !.status = 401]]
    ELSE [continue |-> TRUE, resp |-> resp]

\* MiddlewareChain::execute_before : forward over the chain; a middleware
\* is entered when its before is invoked; stops at the first false.
\* [ok, entered |-> number of middlewares entered, events, resp]
RECURSIVE execute_before_from(_, _, _, _, _)
execute_before_from(chain, i, deny, evs, resp) ==
    IF i > Len(chain)
    THEN [ok |-> TRUE, entered |-> Len(chain), events |-> evs, resp |-> resp]
    ELSE LET b == mw_before(chain[i], deny, resp)
             evs2 == Append(evs, <<"before", chain[i]>>)
         IN IF b.continue
            THEN execute_before_from(chain, i + 1, deny, evs2, b.resp)
            ELSE [ok |-> FALSE, entered |-> i, events |-> evs2,
                  resp |-> b.resp]

execute_before(chain, deny, resp) ==
    execute_before_from(chain, 1, deny, <<>>, resp)

\* MiddlewareChain::execute_after : backward over the entered middlewares
RECURSIVE execute_after(_, _, _)
execute_after(chain, entered, evs) ==
    IF entered = 0 THEN evs
    ELSE execute_after(chain, entered - 1,
                       Append(evs, <<"after", chain[entered]>>))

\* The route handlers that fail abnormally (throw) when invoked
throws(h) == h = "h_throw"

\* A route handler registered by the user: sets the status and a body
call_handler(h, resp) ==
    [resp EXCEPT !.status = 200, !.content_type = "text/plain", !.body = h]

Default404Body == "<html><body><h1>404 Not Found</h1></body></html>"

\* The 404 handler the router holds is "default_404" (Router::Router),
\* "custom_404" (the callback given to Router::set_not_found_handler) or
\* "builder_404" (the lambda of HttpServerBuilder::build, which captures
\* the builder and calls its not_found_handler_). "freed_404" is a call of
\* that lambda after the builder was destroyed that does not come back.
lost(h) == h = "freed_404"

\* The 404 handler: the default of Router::Router, or the user's override
call_not_found(h, resp) ==
    IF h = "default_404"
    THEN [resp EXCEPT !.status = 404,
                      !.content_type = "text/html; charset=utf-8",
                      !.body = Default404Body]
    ELSE [resp EXCEPT !.status = 404,
                      !.content_type = "application/json",
                      !.body = "{\"error\": \"Not Found\", \"code\": 404}"]

-----------------------------------------------------------------------------
(* Router::route *)

\* Mutant: the middlewares of the entry are put before the global ones
build_chain_route_first(routes, middlewares, entry) ==
    (IF entry # 0 THEN routes[entry].middlewares ELSE <<>>) \o middlewares

\* The chain route builds: the global middlewares, then the middlewares of
\* the entry found
build_chain(routes, middlewares, entry) ==
    middlewares \o (IF entry # 0 THEN routes[entry].middlewares ELSE <<>>)

\* Mutant: the handler is invoked whatever execute_before returned
handler_step_always(routes, not_found, entry, method, should_continue, evs, resp) ==
    IF entry # 0
    THEN IF method \in DOMAIN routes[entry].handlers
         THEN LET h == routes[entry].handlers[method]
              IN [events |-> Append(evs, <<"handler", h>>),
                  resp |-> IF throws(h) THEN resp ELSE call_handler(h, resp),
                  thrown |-> throws(h)]
         ELSE [events |-> evs, resp |-> resp, thrown |-> FALSE]
    ELSE [events |-> Append(evs, <<"not_found", not_found>>),
          resp |-> call_not_found(not_found, resp), thrown |-> FALSE]

\* Mutant: a request without a route gets no 404 handler
handler_step_no_404(routes, not_found, entry, method, should_continue, evs, resp) ==
    IF should_continue /\ entry # 0
                       /\ method \in DOMAIN routes[entry].handlers
    THEN LET h == routes[entry].handlers[method]
         IN [events |-> Append(evs, <<"handler", h>>),
             resp |-> IF throws(h) THEN resp ELSE call_handler(h, resp),
             thrown |-> throws(h)]
    ELSE [events |-> evs, resp |-> resp, thrown |-> FALSE]

\* Mutant: the 404 handler is invoked after the handler of the route too
handler_step_then_404(routes, not_found, entry, method, should_continue, evs, resp) ==
    IF should_continue
    THEN IF entry # 0 /\ method \in DOMAIN routes[entry].handlers
         THEN LET h == routes[entry].handlers[method]
              IN [events |-> evs \o << <<"handler", h>>,
                                       <<"not_found", not_found>> >>,
                  resp |-> call_not_found(not_found, resp),
                  thrown |-> FALSE]
         ELSE [events |-> Append(evs, <<"not_found", not_found>>),
               resp |-> call_not_found(not_found, resp), thrown |-> FALSE]
    ELSE [events |-> evs, resp |-> resp, thrown |-> FALSE]

\* The handler step of route: [events, resp] after it, and whether the
\* handler threw; nothing in route catches, so a throw leaves route at once
handler_step(routes, not_found, entry, method, should_continue, evs, resp) ==
    IF should_continue
    THEN IF entry # 0
         THEN IF method \in DOMAIN routes[entry].handlers
              THEN LET h == routes[entry].handlers[method]
                   IN [events |-> Append(evs, <<"handler", h>>),
                       resp |-> IF throws(h) THEN resp
                                ELSE call_handler(h, resp),
                       thrown |-> throws(h)]
              ELSE [events |-> evs, resp |-> resp, thrown |-> FALSE]
         ELSE [events |-> Append(evs, <<"not_found", not_found>>),
               resp |-> IF lost(not_found) THEN resp
                        ELSE call_not_found(not_found, resp),
               thrown |-> lost(not_found)]
    ELSE [events |-> evs, resp |-> resp, thrown |-> FALSE]

\* Mutant: route returns early after a short-circuit, without the after hooks
route_end_skip_after(method, path, f, chain, b, h) ==
    [request |-> [method |-> method, path |-> path, path_params |-> f.params],
     response |-> h.resp,
     events |-> IF b.ok /\ ~h.thrown
                THEN execute_after(chain, b.entered, h.events)
                ELSE h.events,
     returned |-> IF h.thrown THEN "exception"
                  ELSE IF f.entry # 0 THEN "true" ELSE "false",
     entry |-> f.entry,
     chain |-> chain,
     should_continue |-> b.ok]

\* Mutant: route returns whether the handler was reached
route_end_found_and_continued(method, path, f, chain, b, h) ==
    [request |-> [method |-> method, path |-> path, path_params |-> f.params],
     response |-> h.resp,
     events |-> IF h.thrown THEN h.events
                ELSE execute_after(chain, b.entered, h.events),
     returned |-> IF h.thrown THEN "exception"
                  ELSE IF f.entry # 0 /\ b.ok THEN "true" ELSE "false",
     entry |-> f.entry,
     chain |-> chain,
     should_continue |-> b.ok]

\* The end of route, from the handler step h on: the after hooks and the
\* value returned, unless the handler threw. f is what find_route gave, b
\* what execute_before gave. The result is the request, the response, the
\* events and how route ended ("exception" when a handler threw and route
\* was left without returning).
route_end(method, path, f, chain, b, h) ==
    [request |-> [method |-> method, path |-> path, path_params |-> f.params],
     response |-> h.resp,
     events |-> IF h.thrown THEN h.events
                ELSE execute_after(chain, b.entered, h.events),
     returned |-> IF h.thrown THEN "exception"
                  ELSE IF f.entry # 0 THEN "true" ELSE "false",
     entry |-> f.entry,
     chain |-> chain,
     should_continue |-> b.ok]

\* route from the handler step on
route_handler(routes, not_found, method, path, f, chain, b) ==
    route_end(method, path, f, chain, b,
              handler_step(routes, not_found, f.entry, method, b.ok,
                           b.events, b.resp))

\* route from execute_before on
route_before(routes, not_found, method, path, deny, f, chain) ==
    route_handler(routes, not_found, method, path, f, chain,
                  execute_before(chain, deny, NewResponse))

\* route from the assembly of the chain on
route_chain(routes, middlewares, not_found, method, path, deny, f) ==
    route_before(routes, not_found, method, path, deny, f,
                 build_chain(routes, middlewares, f.entry))

\* Router::route(request, response)
route(routes, middlewares, not_found, method, path, deny) ==
    route_chain(routes, middlewares, not_found, method, path, deny,
                find_route(routes, path, method, EmptyParams))

-----------------------------------------------------------------------------
(* HttpServerBuilder *)

MaxBuilderRoutes == 2
MaxBuilderMw == 2

\* HttpServerBuilder::HttpServerBuilder
NewBuilder == [alive |-> TRUE,
               host_ |-> "0.0.0.0", port_ |-> 8080, num_threads_ |-> 4,
               use_https_ |-> FALSE, daemon_mode_ |-> FALSE,
               log_level_ |-> "info", middlewares_ |-> <<>>, routes_ |-> <<>>,
               not_found_handler_ |-> "", io_scheduler_ |-> "null"]

\* The loop of build over middlewares_: Router::use for each
RECURSIVE replay_middlewares(_, _, _)
replay_middlewares(bmws, i, middlewares) ==
    IF i > Len(bmws) THEN middlewares
    ELSE replay_middlewares(bmws, i + 1, Append(middlewares, bmws[i]))

\* The loop of build over routes_: Router::add_route for each tuple of one
\* of the four methods
RECURSIVE replay_routes(_, _, _)
replay_routes(broutes, i, routes) ==
    IF i > Len(broutes) THEN routes
    ELSE replay_routes(broutes, i + 1,
            IF broutes[i].method \in {"GET", "POST", "PUT", "DELETE"}
            THEN add_route_internal(routes, broutes[i].method,
                                    broutes[i].path, broutes[i].handler)
            ELSE routes)

\* The calls build makes on the server it created, in the order of its
\* statements: HttpsServer::set_ssl_certificate when HTTPS is enabled,
\* Router::use for each middleware, Router::add_route for each tuple of one
\* of the four methods, Router::set_not_found_handler when a 404 handler
\* was given, then HttpServer::bind
RECURSIVE route_calls(_, _, _)
route_calls(broutes, i, calls) ==
    IF i > Len(broutes) THEN calls
    ELSE route_calls(broutes, i + 1,
            IF broutes[i].method \in {"GET", "POST", "PUT", "DELETE"}
            THEN Append(calls, "add_route")
            ELSE calls)

build_calls(b) ==
    (IF b.use_https_ THEN <<"set_ssl_certificate">> ELSE <<>>)
    \o route_calls(b.routes_, 1, [i \in 1..Len(b.middlewares_) |-> "use"])
    \o (IF b.not_found_handler_ # "" THEN <<"set_not_found_handler">>
        ELSE <<>>)
    \o <<"bind">>

\* What build leaves when it returns nullptr: no server, no router; bind is
\* what bind answered, "none" when build did not get to it; created is the
\* scheduler the call made, "none" when it did not get to it
NoServer(io_scheduler, created, bind, calls) ==
    [handle |-> "null", io_scheduler_ |-> io_scheduler, created |-> created,
     bind |-> bind,
     routes |-> <<>>, middlewares |-> <<>>, not_found |-> "default_404",
     calls |-> calls]

\* Mutant: build returns the server although bind failed
build_ignore_bind(b, daemonize_ok, bind_ok) ==
    IF b.daemon_mode_ /\ ~daemonize_ok
    THEN NoServer(b.io_scheduler_, "none", "none", <<>>)
    ELSE [handle |-> "server",
          io_scheduler_ |-> "started",
          created |-> "started",
          bind |-> IF bind_ok THEN "ok" ELSE "failed",
          routes |-> replay_routes(b.routes_, 1, <<>>),
          middlewares |-> replay_middlewares(b.middlewares_, 1, <<>>),
          not_found |-> IF b.not_found_handler_ # "" THEN "builder_404"
                        ELSE "default_404",
          calls |-> build_calls(b)]

\* HttpServerBuilder::build : the handle returned, the scheduler of the
\* builder and the router of the server. daemonize_ok and bind_ok are what
\* Daemon::daemonize and HttpServer::bind answer.
build(b, daemonize_ok, bind_ok) ==
    IF b.daemon_mode_ /\ ~daemonize_ok
    THEN NoServer(b.io_scheduler_, "none", "none", <<>>)
    ELSE IF ~bind_ok
         THEN NoServer("started", "started", "failed", build_calls(b))
         ELSE [handle |-> "server",
               io_scheduler_ |-> "started",
               created |-> "started",
               bind |-> "ok",
               routes |-> replay_routes(b.routes_, 1, <<>>),
               middlewares |-> replay_middlewares(b.middlewares_, 1, <<>>),
               not_found |-> IF b.not_found_handler_ # "" THEN "builder_404"
                             ELSE "default_404",
               calls |-> build_calls(b)]

\* Mutant: run calls start on whatever build returned
run_start_always(b, daemonize_ok, bind_ok, start_ok) ==
    LET r == build(b, daemonize_ok, bind_ok)
    IN [built |-> r, start_called |-> TRUE,
        calls |-> Append(r.calls, "start"),
        pc |-> IF start_ok THEN "waiting" ELSE "returned"]

\* Mutant: run starts the server it is still to register the routes on
run_start_first(b, daemonize_ok, bind_ok, start_ok) ==
    LET r == build(b, daemonize_ok, bind_ok)
    IN IF r.handle = "null"
       THEN [built |-> r, start_called |-> FALSE, calls |-> r.calls,
             pc |-> "returned"]
       ELSE [built |-> r, start_called |-> TRUE,
             calls |-> <<"start">> \o r.calls,
             pc |-> IF start_ok THEN "waiting" ELSE "returned"]

\* HttpServerBuilder::run : build, then start, then the wait loop. start_ok
\* is what HttpServer::start answers. calls are the calls made on the
\* server, in order.
run(b, daemonize_ok, bind_ok, start_ok) ==
    LET r == build(b, daemonize_ok, bind_ok)
    IN IF r.handle = "null"
       THEN [built |-> r, start_called |-> FALSE, calls |-> r.calls,
             pc |-> "returned"]
       ELSE IF ~start_ok
            THEN [built |-> r, start_called |-> TRUE,
                  calls |-> Append(r.calls, "start"), pc |-> "returned"]
            ELSE [built |-> r, start_called |-> TRUE,
                  calls |-> Append(r.calls, "start"), pc |-> "waiting"]

-----------------------------------------------------------------------------
(* History of the registrations *)

EmptyLatest == [k \in {} |-> "h1"]

\* The handler of the last registration of (method, path) becomes handler
SetLatest(f, method, path, handler) ==
    [k \in DOMAIN f \cup {<<method, path>>} |->
        IF k = <<method, path>> THEN handler ELSE f[k]]

\* The last registrations among the tuples of the builder
RECURSIVE replay_latest(_, _, _)
replay_latest(broutes, i, f) ==
    IF i > Len(broutes) THEN f
    ELSE replay_latest(broutes, i + 1,
            SetLatest(f, broutes[i].method, broutes[i].path,
                      broutes[i].handler))

-----------------------------------------------------------------------------
(* The router as a state machine *)

NoRequest == [method |-> "", path |-> <<>>, path_params |-> EmptyParams]

NoDispatch == [entry |-> 0, chain |-> <<>>, deny |-> {},
               should_continue |-> TRUE]

RouterInit ==
    /\ routes_ = <<>>
    /\ middlewares_ = <<>>
    /\ not_found_handler_ = "default_404"
    /\ request = NoRequest
    /\ response = NewResponse
    /\ events = <<>>
    /\ returned = "none"
    /\ dispatched = NoDispatch

Idle == returned = "none"

\* Router::add_route(method, path, handler)
AddRoute(methods, paths, handlers) ==
    /\ Idle
    /\ \E method \in methods, path \in paths, handler \in handlers :
        /\ find_pattern(routes_, path) = 0 => Len(routes_) < MaxRoutes
        /\ routes_' = add_route_internal(routes_, method, path, handler)
        /\ latest' = [latest EXCEPT !.router =
                            SetLatest(latest.router, method, path, handler)]
    /\ UNCHANGED <<middlewares_, not_found_handler_, requestVars, treeVars,
                   builderVars>>

\* Router::add_regex_route(method, regex_pattern, param_names, handler)
AddRegexRoute(methods, patterns, names, handlers) ==
    /\ Idle
    /\ \E method \in methods, regex_pattern \in patterns,
          param_names \in names, handler \in handlers :
        /\ find_regex_pattern(routes_, regex_pattern) = 0
                => Len(routes_) < MaxRoutes
        /\ routes_' = add_regex_route_internal(routes_, method, regex_pattern,
                                               param_names, handler)
    /\ UNCHANGED <<middlewares_, not_found_handler_, requestVars, treeVars,
                   latest, builderVars>>

\* Router::use(middleware)
Use(mws) ==
    /\ Idle
    /\ Len(middlewares_) < MaxGlobalMw
    /\ \E mw \in mws : middlewares_' = Append(middlewares_, mw)
    /\ UNCHANGED <<routes_, not_found_handler_, requestVars, treeVars,
                   latest, builderVars>>

\* Router::use(path, middleware)
UsePath(paths, mws) ==
    /\ Idle
    /\ \E path \in paths, mw \in mws :
        LET i == find_pattern(routes_, path)
        IN /\ i = 0 => Len(routes_) < MaxRoutes
           /\ i # 0 => Len(routes_[i].middlewares) < MaxRouteMw
           /\ routes_' = use_path(routes_, path, mw)
    /\ UNCHANGED <<middlewares_, not_found_handler_, requestVars, treeVars,
                   latest, builderVars>>

\* Router::set_not_found_handler(callback)
SetNotFoundHandler ==
    /\ Idle
    /\ not_found_handler_' = "custom_404"
    /\ UNCHANGED <<routes_, middlewares_, requestVars, treeVars,
                   latest, builderVars>>

\* What invoking not_found_handler_ can do: the lambda of build reads the
\* builder it captured, and once the builder is destroyed that read is of
\* freed memory: the call may find the callback still there, or not come
\* back
NotFoundOutcomes ==
    IF not_found_handler_ = "builder_404" /\ ~builder.alive
    THEN {"builder_404", "freed_404"}
    ELSE {not_found_handler_}

\* Router::route(request, response) on a request the parser produced
Route(methods, paths, mws) ==
    /\ Idle
    /\ \E method \in methods, path \in paths, deny \in SUBSET mws,
          not_found \in NotFoundOutcomes :
        LET r == route(routes_, middlewares_, not_found, method,
                       path, deny)
        IN /\ request' = r.request
           /\ response' = r.response
           /\ events' = r.events
           /\ returned' = r.returned
           /\ dispatched' = [entry |-> r.entry, chain |-> r.chain,
                             deny |-> deny,
                             should_continue |-> r.should_continue]
    /\ UNCHANGED <<routerVars, treeVars, latest, builderVars>>

\* The response is handed to the serializer, and the request, the response
\* and the chain of the dispatch are gone
Respond ==
    /\ ~Idle
    /\ request' = NoRequest
    /\ response' = NewResponse
    /\ events' = <<>>
    /\ returned' = "none"
    /\ dispatched' = NoDispatch
    /\ UNCHANGED <<routerVars, treeVars, latest, builderVars>>

-----------------------------------------------------------------------------
(* The builder as a state machine *)

\* The configuration build reads
ConfigOf(b) == [port_ |-> b.port_, num_threads_ |-> b.num_threads_,
                log_level_ |-> b.log_level_]

\* What build reads of the builder: every field but the scheduler
InputsOf(b) == [b EXCEPT !.io_scheduler_ = "null"]

NoHandle == [handle |-> "null", start_called |-> FALSE, bind |-> "none",
             config |-> ConfigOf(NewBuilder), calls |-> <<>>, builds |-> 0,
             scheduler |-> "none"]

BuilderInit ==
    /\ builder = NewBuilder
    /\ server = NoHandle
    /\ run_pc = "none"

\* The builder exists, its caller is not inside run(), and the process
\* runs
BuilderReady == builder.alive /\ run_pc \notin {"waiting", "exited"}

SetBuilder(b) ==
    /\ BuilderReady
    /\ builder' = b
    /\ server' = [server EXCEPT !.builds = 0]
    /\ UNCHANGED <<run_pc, routerVars, requestVars, treeVars, latest>>

\* HttpServerBuilder::listen(host, port)
Listen(hosts, ports) ==
    \E host \in hosts, port \in ports :
        SetBuilder([builder EXCEPT !.host_ = host, !.port_ = port])

\* HttpServerBuilder::enable_https(cert_file, key_file)
EnableHttps == SetBuilder([builder EXCEPT !.use_https_ = TRUE])

\* HttpServerBuilder::threads(num_threads)
Threads(counts) ==
    \E n \in counts : SetBuilder([builder EXCEPT !.num_threads_ = n])

\* HttpServerBuilder::log_level(level)
LogLevel(levels) ==
    \E level \in levels : SetBuilder([builder EXCEPT !.log_level_ = level])

\* HttpServerBuilder::daemon(enable)
Daemon ==
    \E enable \in BOOLEAN :
        SetBuilder([builder EXCEPT !.daemon_mode_ = enable])

\* HttpServerBuilder::use(middleware)
BuilderUse(mws) ==
    /\ Len(builder.middlewares_) < MaxBuilderMw
    /\ \E mw \in mws :
        SetBuilder([builder EXCEPT !.middlewares_ = Append(@, mw)])

\* HttpServerBuilder::get / post / put / del (path, handler)
BuilderRoute(methods, paths, handlers) ==
    /\ Len(builder.routes_) < MaxBuilderRoutes
    /\ \E method \in methods, path \in paths, handler \in handlers :
        SetBuilder([builder EXCEPT !.routes_ =
                        Append(@, [method |-> method, path |-> path,
                                   handler |-> handler])])

\* HttpServerBuilder::not_found(handler)
NotFound ==
    SetBuilder([builder EXCEPT !.not_found_handler_ = "custom_404"])

\* Mutant: build moves the handlers out of the tuples of the builder
Built_routes_moved(r, broutes, calls, start_called, alive) ==
    /\ server' = [handle |-> r.handle, start_called |-> start_called,
                  bind |-> r.bind, config |-> ConfigOf(builder),
                  calls |-> calls,
                  builds |-> IF ~alive THEN 0
                             ELSE IF server.builds = 0 THEN 1 ELSE 2,
                  scheduler |-> r.created]
    /\ routes_' = IF alive THEN r.routes ELSE <<>>
    /\ middlewares_' = IF alive THEN r.middlewares ELSE <<>>
    /\ not_found_handler_' = IF alive THEN r.not_found ELSE "default_404"
    /\ builder' = [builder EXCEPT !.io_scheduler_ = r.io_scheduler_,
                                  !.routes_ = <<>>]
    /\ latest' = [latest EXCEPT !.router =
                    IF alive THEN replay_latest(broutes, 1, EmptyLatest)
                    ELSE EmptyLatest]

\* The server build made becomes the server of the model; alive says
\* whether the server exists when the call is over
Built(r, broutes, calls, start_called, alive) ==
    /\ server' = [handle |-> r.handle, start_called |-> start_called,
                  bind |-> r.bind, config |-> ConfigOf(builder),
                  calls |-> calls,
                  builds |-> IF ~alive THEN 0
                             ELSE IF server.builds = 0 THEN 1 ELSE 2,
                  scheduler |-> r.created]
    /\ routes_' = IF alive THEN r.routes ELSE <<>>
    /\ middlewares_' = IF alive THEN r.middlewares ELSE <<>>
    /\ not_found_handler_' = IF alive THEN r.not_found ELSE "default_404"
    /\ builder' = [builder EXCEPT !.io_scheduler_ = r.io_scheduler_]
    /\ latest' = [latest EXCEPT !.router =
                    IF alive THEN replay_latest(broutes, 1, EmptyLatest)
                    ELSE EmptyLatest]

\* HttpServerBuilder::build()
Build ==
    /\ BuilderReady
    /\ Idle
    /\ \E daemonize_ok \in BOOLEAN, bind_ok \in BOOLEAN :
        LET r == build(builder, daemonize_ok, bind_ok)
        IN /\ Built(r, builder.routes_, r.calls, FALSE,
                    r.handle = "server")
           /\ run_pc' = "built"
    /\ UNCHANGED <<requestVars, treeVars>>

\* HttpServerBuilder::run(), up to its return or its wait loop; the server
\* is a local of run and is gone when run returns
Run ==
    /\ BuilderReady
    /\ Idle
    /\ \E daemonize_ok \in BOOLEAN, bind_ok \in BOOLEAN,
          start_ok \in BOOLEAN :
        LET r == run(builder, daemonize_ok, bind_ok, start_ok)
        IN /\ Built(r.built, builder.routes_, r.calls, r.start_called,
                    r.pc = "waiting")
           /\ run_pc' = r.pc
    /\ UNCHANGED <<requestVars, treeVars>>

\* HttpServerBuilder::~HttpServerBuilder : the builder goes out of scope;
\* the handle build() returned stays with its owner
DestroyBuilder ==
    /\ BuilderReady
    /\ builder' = [builder EXCEPT !.alive = FALSE]
    /\ UNCHANGED <<server, run_pc, routerVars, requestVars, treeVars, latest>>

\* The owner of the handle build() returned has a request dispatched
Dispatch(methods, paths, mws) ==
    /\ server.handle = "server"
    /\ run_pc = "built"
    /\ Route(methods, paths, mws)

\* The server run() started is accepting connections
Serving == run_pc = "waiting" /\ server.handle = "server"

\* A request arrives at the started server and is dispatched
Serve(methods, paths, mws) == Serving /\ Route(methods, paths, mws)

\* The started server writes the response out
ServeRespond == Serving /\ Respond

\* SIGINT or SIGTERM arrives while run() is in its wait loop: the handler
\* run() installed logs and calls exit(0)
Signal ==
    /\ run_pc = "waiting"
    /\ \E sig \in {"SIGINT", "SIGTERM"} :
        server' = [server EXCEPT !.calls = Append(@, "exit(0)")]
    /\ run_pc' = "exited"
    /\ UNCHANGED <<builder, routerVars, requestVars, treeVars, latest>>

-----------------------------------------------------------------------------
(* The radix tree as a state machine *)

NoQuery == <<>>

TreeInit ==
    /\ root_ = NewNode
    /\ nins = 0
    /\ registered = {}
    /\ latest = [tree |-> EmptyLatest, router |-> EmptyLatest]
    /\ query = NoQuery
    /\ result = NewRouteMatch

\* RadixTree::insert(method, path, handler)
Insert(paths, handlers) ==
    /\ nins < MaxInserts
    /\ \E method \in Methods, path \in paths, handler \in handlers :
        /\ root_' = insert(root_, method, path, handler)
        /\ registered' = registered \cup {<<method, path>>}
        /\ latest' = [latest EXCEPT !.tree =
                            SetLatest(latest.tree, method, path, handler)]
    /\ nins' = nins + 1
    /\ query' = NoQuery
    /\ result' = NewRouteMatch
    /\ UNCHANGED <<routerVars, requestVars, builderVars>>

\* RadixTree::find(path)
Find(paths) ==
    /\ \E path \in paths :
        /\ query' = path
        /\ result' = find(root_, path)
    /\ UNCHANGED <<root_, nins, registered, latest>>
    /\ UNCHANGED <<routerVars, requestVars, builderVars>>

TreeInsert == Insert(TreeRoutes, TreeHandlers)

TreeFind == Find(TreeRequests)

InitTree == TreeInit /\ RouterInit /\ BuilderInit

NextTree == TreeInsert \/ TreeFind

SpecTree == InitTree /\ [][NextTree]_vars

-----------------------------------------------------------------------------
(* Configuring, building and running a server: SpecBuilder *)

Hosts == {"0.0.0.0"}

Ports == {0, 8080}

ThreadCounts == {0, 4}

LogLevels == {"info", "bogus"}

BuilderListen == Listen(Hosts, Ports)

BuilderThreads == Threads(ThreadCounts)

BuilderLogLevel == LogLevel(LogLevels)

BuilderGet == BuilderRoute({"GET"}, {P_t}, {"h1"})

BuilderUseA == BuilderUse({"A"})

InitBuilder == TreeInit /\ RouterInit /\ BuilderInit

NextBuilder ==
    \/ BuilderListen
    \/ BuilderThreads
    \/ BuilderLogLevel
    \/ Daemon
    \/ BuilderGet
    \/ BuilderUseA
    \/ NotFound
    \/ Build
    \/ Run

SpecBuilder == InitBuilder /\ [][NextBuilder]_vars

-----------------------------------------------------------------------------
(* One builder built again and again: SpecRebuild *)

RebuildListen == Listen({"127.0.0.1"}, {9090})

RebuildAddRoute == BuilderRoute(Methods, {P_t}, {"h1"})

RebuildUse == BuilderUse({"A", "B"})

InitRebuild == TreeInit /\ RouterInit /\ BuilderInit

NextRebuild ==
    \/ RebuildListen
    \/ EnableHttps
    \/ RebuildAddRoute
    \/ RebuildUse
    \/ NotFound
    \/ Build

SpecRebuild == InitRebuild /\ [][NextRebuild]_vars

-----------------------------------------------------------------------------
(* A server that is used after its builder is gone: SpecLifetime *)

LifetimeAddRoute == BuilderRoute({"GET"}, {P_t}, {"h1"})

LifetimeUse == BuilderUse({"A"})

LifetimeDispatch == Dispatch(Methods, {P_t, P_zz}, {"A"})

InitLifetime == TreeInit /\ RouterInit /\ BuilderInit

NextLifetime ==
    \/ LifetimeAddRoute
    \/ LifetimeUse
    \/ NotFound
    \/ Build
    \/ DestroyBuilder
    \/ LifetimeDispatch
    \/ Respond

SpecLifetime == InitLifetime /\ [][NextLifetime]_vars

-----------------------------------------------------------------------------
(* A server configured, run, serving requests and signalled: SpecServe *)

ServePaths == {P_t}

ServeRequests == {P_t, P_zz}

ServeMws == {"A"}

ServeAddRoute == BuilderRoute(Methods, ServePaths, {"h1"})

ServeUse == BuilderUse(ServeMws)

ServeRoute == Serve(Methods, ServeRequests, ServeMws)

InitServe == TreeInit /\ RouterInit /\ BuilderInit

NextServe ==
    \/ ServeAddRoute
    \/ ServeUse
    \/ NotFound
    \/ Run
    \/ ServeRoute
    \/ ServeRespond
    \/ Signal

SpecServe == InitServe /\ [][NextServe]_vars

-----------------------------------------------------------------------------
(* One (method, path) registered again and again, in the tree, in the      *)
(* router and through the builder: SpecOverwrite                           *)

OverwritePaths == {P_x}

OverwriteHandlers == {"h1", "h2"}

OverwriteInsert == Insert(OverwritePaths, OverwriteHandlers)

OverwriteFind == Find(OverwritePaths)

OverwriteAddRoute == AddRoute(Methods, OverwritePaths, OverwriteHandlers)

OverwriteGet == BuilderRoute({"GET"}, OverwritePaths, OverwriteHandlers)

OverwriteRoute == Route(Methods, OverwritePaths, {})

InitOverwrite == TreeInit /\ RouterInit /\ BuilderInit

NextOverwrite ==
    \/ OverwriteInsert
    \/ OverwriteFind
    \/ OverwriteAddRoute
    \/ OverwriteGet
    \/ Build
    \/ OverwriteRoute
    \/ Respond

SpecOverwrite == InitOverwrite /\ [][NextOverwrite]_vars

-----------------------------------------------------------------------------
(* The root path and paths with empty segments: SpecRoot *)

RootRoutes == {P_root, P_a_b, P_a_b_s, P_star}

RootRequests == {P_root, P_ss, P_a_b, P_a_b_s, P_a__b, P_zz}

RootInsert == Insert(RootRoutes, TreeHandlers)

RootFind == Find(RootRequests)

InitRoot == TreeInit /\ RouterInit /\ BuilderInit

NextRoot == RootInsert \/ RootFind

SpecRoot == InitRoot /\ [][NextRoot]_vars

-----------------------------------------------------------------------------
(* One route written with and without empty segments, in the tree and in   *)
(* the router: SpecSlashes                                                 *)

SlashesRoutes == {P_root, P_a_b, P_a_b_s}

SlashesRequests == {P_ss, P_a_b, P_a_b_s, P_a__b}

SlashesInsert == Insert(SlashesRoutes, TreeHandlers)

SlashesFind == Find(SlashesRequests)

SlashesAddRoute == AddRoute({"GET"}, SlashesRoutes, {"h1"})

SlashesRoute == Route({"GET"}, SlashesRequests, {})

InitSlashes == TreeInit /\ RouterInit /\ BuilderInit

NextSlashes ==
    \/ SlashesInsert
    \/ SlashesFind
    \/ SlashesAddRoute
    \/ SlashesRoute
    \/ Respond

SpecSlashes == InitSlashes /\ [][NextSlashes]_vars

-----------------------------------------------------------------------------
(* Two routes registered in one order or the other, in the tree and in     *)
(* the router: SpecOrder                                                   *)

OrderRoutes == {P_a_px, P_a_py_c}

OrderRequests == {P_a_c, P_a_b_c}

OrderRouterRoutes == {P_users_id_posts_pid, P_users_u_posts_pid}

OrderRouterRequests == {P_users_42_posts_7}

OrderInsert == Insert(OrderRoutes, TreeHandlers)

OrderFind == Find(OrderRequests)

OrderAddRoute == AddRoute({"GET"}, OrderRouterRoutes, {"h1", "h2"})

OrderRoute == Route({"GET"}, OrderRouterRequests, {})

InitOrder == TreeInit /\ RouterInit /\ BuilderInit

NextOrder ==
    \/ OrderInsert
    \/ OrderFind
    \/ OrderAddRoute
    \/ OrderRoute
    \/ Respond

SpecOrder == InitOrder /\ [][NextOrder]_vars

-----------------------------------------------------------------------------
(* Routes that give one place of the tree different parameter names:       *)
(* SpecNames                                                               *)

NamesRoutes == {P_a_px, P_a_py, P_a_sr, P_a_ss}

NamesRequests == {P_a_c, P_a_b_d}

NamesInsert == Insert(NamesRoutes, TreeHandlers)

NamesFind == Find(NamesRequests)

InitNames == TreeInit /\ RouterInit /\ BuilderInit

NextNames == NamesInsert \/ NamesFind

SpecNames == InitNames /\ [][NextNames]_vars

-----------------------------------------------------------------------------
(* The middleware chain around one route: SpecChain *)

ChainPaths == {P_t}

ChainRequests == {P_t, P_zz}

ChainHandlers == {"h1"}

ChainMws == {"A", "B", "C"}

ChainAddRoute == AddRoute({"GET"}, ChainPaths, ChainHandlers)

ChainUse == Use(ChainMws)

ChainUsePath == UsePath(ChainPaths, ChainMws)

ChainRoute == Route(Methods, ChainRequests, ChainMws)

InitChain == TreeInit /\ RouterInit /\ BuilderInit

NextChain ==
    \/ ChainAddRoute
    \/ ChainUse
    \/ ChainUsePath
    \/ SetNotFoundHandler
    \/ ChainRoute
    \/ Respond

SpecChain == InitChain /\ [][NextChain]_vars

-----------------------------------------------------------------------------
(* A route whose handler may throw: SpecFailure *)

FailurePaths == {P_t}

FailureRequests == {P_t, P_zz}

FailureHandlers == {"h1", "h_throw"}

FailureMws == {"A", "B"}

FailureAddRoute == AddRoute({"GET"}, FailurePaths, FailureHandlers)

FailureUse == Use(FailureMws)

FailureRoute == Route({"GET"}, FailureRequests, FailureMws)

InitFailure == TreeInit /\ RouterInit /\ BuilderInit

NextFailure ==
    \/ FailureAddRoute
    \/ FailureUse
    \/ SetNotFoundHandler
    \/ FailureRoute
    \/ Respond

SpecFailure == InitFailure /\ [][NextFailure]_vars

-----------------------------------------------------------------------------
(* Static, parameter and regex routes that match one path: SpecTiers *)

TiersPaths == {P_data, P_pid}

TiersRegexes == {R_data, R_seg}

TiersRequests == {P_data, P_zz}

TiersAddRoute == AddRoute(Methods, TiersPaths, {"h1"})

TiersAddRegexRoute == AddRegexRoute(Methods, TiersRegexes, {<<>>}, {"h2"})

TiersRoute == Route(Methods, TiersRequests, {})

InitTiers == TreeInit /\ RouterInit /\ BuilderInit

NextTiers ==
    \/ TiersAddRoute
    \/ TiersAddRegexRoute
    \/ TiersRoute
    \/ Respond

SpecTiers == InitTiers /\ [][NextTiers]_vars

-----------------------------------------------------------------------------
(* Route matching in the router: SpecRouter *)

RouterPaths == {P_data, P_users_id_posts_pid, P_users_u_posts_pid}

RouterRequests == {P_data, P_users_42_posts_7, P_zz}

RouterHandlers == {"h1", "h2"}

RouterMws == {"A"}

RouterAddRoute == AddRoute(Methods, RouterPaths, RouterHandlers)

RouterUse == Use(RouterMws)

RouterRoute == Route(Methods, RouterRequests, RouterMws)

InitRouter == TreeInit /\ RouterInit /\ BuilderInit

NextRouter ==
    \/ RouterAddRoute
    \/ RouterUse
    \/ SetNotFoundHandler
    \/ RouterRoute
    \/ Respond

SpecRouter == InitRouter /\ [][NextRouter]_vars

-----------------------------------------------------------------------------
(* What a route pattern matches, stated on the pattern itself.             *)
(* minRest is the least number of segments a catch-all segment absorbs.    *)

RECURSIVE PatMatches(_, _, _)
PatMatches(pat, segs, minRest) ==
    IF pat = <<>> THEN segs = <<>>
    ELSE LET type == parse_segment(Head(pat)).type
         IN IF type = CATCH_ALL
            THEN Len(pat) = 1 /\ Len(segs) >= minRest
            ELSE /\ segs # <<>>
                 /\ type = STATIC => Head(pat) = Head(segs)
                 /\ PatMatches(Tail(pat), Tail(segs), minRest)

\* The bindings a pattern gives on a path it matches: a set of <<name, value>>
RECURSIVE PatBindings(_, _)
PatBindings(pat, segs) ==
    IF pat = <<>> \/ segs = <<>> THEN {}
    ELSE LET parsed == parse_segment(Head(pat))
         IN IF parsed.type = CATCH_ALL
            THEN IF parsed.name # <<>>
                 THEN {<<parsed.name, remaining_from(segs, 1, <<>>)>>}
                 ELSE {}
            ELSE (IF parsed.type = PARAM THEN {<<parsed.name, Head(segs)>>}
                  ELSE {})
                 \cup PatBindings(Tail(pat), Tail(segs))

\* The place of a pattern in the tree: per segment, its class and, for a
\* STATIC segment, its literal
PatternKey(pat) ==
    [i \in 1..Len(pat) |->
        LET type == parse_segment(pat[i]).type
        IN IF type = STATIC THEN <<type, pat[i]>> ELSE <<type, <<>> >>]

\* The place of a node of the tree, read off the nodes from the root to it
RECURSIVE NodeKey(_, _)
NodeKey(node, ptr) ==
    IF ptr = <<>> THEN <<>>
    ELSE LET child == node.children_[Head(ptr)]
         IN << <<child.type_,
                 IF child.type_ = STATIC THEN child.path_ ELSE <<>> >> >>
            \o NodeKey(child, Tail(ptr))

\* The bindings of the PARAM and CATCH_ALL nodes from the root to a node
RECURSIVE NodeBindings(_, _, _)
NodeBindings(node, ptr, segs) ==
    IF ptr = <<>> \/ segs = <<>> THEN {}
    ELSE LET child == node.children_[Head(ptr)]
         IN IF child.type_ = CATCH_ALL
            THEN IF child.param_name_ # <<>>
                 THEN {<<child.param_name_, remaining_from(segs, 1, <<>>)>>}
                 ELSE {}
            ELSE (IF child.type_ = PARAM
                  THEN {<<child.param_name_, Head(segs)>>} ELSE {})
                 \cup NodeBindings(child, Tail(ptr), Tail(segs))

\* The params map as a set of <<name, value>>
ParamPairs(params) == {<<n, params[n]>> : n \in DOMAIN params}

\* Pattern p is preferred to pattern q: the same place, or at the first
\* segment where their classes differ p has the higher-priority class
Prefers(p, q) ==
    LET kp == PatternKey(p)
        kq == PatternKey(q)
        diff == {i \in 1..Len(kp) : i > Len(kq) \/ kp[i] # kq[i]}
    IN \/ kp = kq
       \/ /\ diff # {}
          /\ LET d == CHOOSE i \in diff : \A j \in diff : i <= j
             IN d <= Len(kq) /\ kp[d][1] < kq[d][1]

RegisteredPatterns == {split_path(r[2]) : r \in registered}

\* The registered patterns that match the path of the last find
Matching(minRest) ==
    {p \in RegisteredPatterns : PatMatches(p, split_path(query), minRest)}

Found(path) == query = path /\ result.found

FoundAt(path, pattern) ==
    /\ query = path
    /\ result.found
    /\ NodeKey(root_, result.node) = PatternKey(split_path(pattern))

-----------------------------------------------------------------------------
(* Claims about RadixTree::find, checked under SpecTree *)

\* C4: priority ordering. Among the registered routes that match the
\* request path, find selects the one preferred in the order STATIC, then
\* PARAM, then CATCH_ALL at the first segment where they differ; with /a/b
\* and /a/:x registered, /a/b selects /a/b and /a/c selects /a/:x, x = "c".
C4_PriorityOrdering ==
    query # NoQuery =>
        /\ Matching(1) # {} =>
            /\ result.found
            /\ \E p \in Matching(1) :
                /\ NodeKey(root_, result.node) = PatternKey(p)
                /\ \A q \in Matching(1) : Prefers(p, q)
        /\ {split_path(P_a_b), split_path(P_a_px)} \subseteq RegisteredPatterns
            => /\ query = P_a_b => FoundAt(P_a_b, P_a_b)
               /\ query = P_a_c =>
                    /\ FoundAt(P_a_c, P_a_px)
                    /\ ParamPairs(result.params) = {<< <<"x">>, <<"c">> >>}

\* C4 witness: STATIC, PARAM and CATCH_ALL routes all match /a/b, and find
\* has selected the STATIC one
C4_Witness ==
    /\ {split_path(P_a_b), split_path(P_a_px), split_path(P_a_sr)}
            \subseteq Matching(1)
    /\ FoundAt(P_a_b, P_a_b)

\* C5: backtracking. A registered route that matches the request path is
\* found even when a STATIC descent fails first; with /a/:x/c and /a/b/d
\* registered, /a/b/c selects /a/:x/c with x = "b" and /a/b/d selects
\* /a/b/d.
C5_Backtracking ==
    query # NoQuery =>
        /\ Matching(1) # {} => result.found
        /\ {split_path(P_a_px_c), split_path(P_a_b_d)}
                \subseteq RegisteredPatterns
            => /\ query = P_a_b_c =>
                    /\ FoundAt(P_a_b_c, P_a_px_c)
                    /\ ParamPairs(result.params) = {<< <<"x">>, <<"b">> >>}
               /\ query = P_a_b_d =>
                    /\ FoundAt(P_a_b_d, P_a_b_d)
                    /\ ParamPairs(result.params) = {}

\* C5 witness: the STATIC descent /a/b fails on c and the PARAM sibling
\* is selected
C5_Witness ==
    /\ {split_path(P_a_px_c), split_path(P_a_b_d)} \subseteq RegisteredPatterns
    /\ FoundAt(P_a_b_c, P_a_px_c)
    /\ ParamPairs(result.params) = {<< <<"x">>, <<"b">> >>}

\* C7: the params of the RouteMatch are the bindings of the PARAM and
\* CATCH_ALL nodes from the root to the returned node, and a find that
\* fails returns no node and no binding.
C7_BindingsOnSuccessPath ==
    query # NoQuery =>
        IF result.found
        THEN LET expected == NodeBindings(root_, result.node,
                                          split_path(query))
             IN /\ ParamPairs(result.params) \subseteq expected
                /\ {b[1] : b \in expected} = DOMAIN result.params
        ELSE /\ result.node = NullNode
             /\ DOMAIN result.params = {}

\* C7 witness: the PARAM subtree of /a/:x/c was explored for /a/b/d and
\* failed, and the catch-all /a/*r was selected with r alone bound
C7_Witness ==
    /\ RegisteredPatterns = {split_path(P_a_px_c), split_path(P_a_sr)}
    /\ FoundAt(P_a_b_d, P_a_sr)
    /\ ParamPairs(result.params) = {<< <<"r">>, <<"b", "/", "d">> >>}

\* C7 witness of the failing case: a PARAM subtree explored, nothing found
C7_WitnessNotFound ==
    /\ RegisteredPatterns = {split_path(P_a_px_c)}
    /\ query = P_a_b_d
    /\ ~result.found

\* C8 as stated: /files/*rest matches /files/a/b/c with rest = "a/b/c" and
\* matches /files/ with rest = ""
C8_CatchAllRemainder ==
    split_path(P_files_rest) \in RegisteredPatterns =>
        /\ query = P_files_a_b_c =>
            /\ FoundAt(P_files_a_b_c, P_files_rest)
            /\ ParamPairs(result.params) =
                 {<< <<"r", "e", "s", "t">>, <<"a", "/", "b", "/", "c">> >>}
        /\ query = P_files_ =>
            /\ FoundAt(P_files_, P_files_rest)
            /\ ParamPairs(result.params) = {<< <<"r", "e", "s", "t">>, <<>> >>}

\* The part of C8 the code does: the remainder of a non-empty rest
C8_NonEmptyRemainder ==
    split_path(P_files_rest) \in RegisteredPatterns /\ query = P_files_a_b_c
        => /\ FoundAt(P_files_a_b_c, P_files_rest)
           /\ ParamPairs(result.params) =
                 {<< <<"r", "e", "s", "t">>, <<"a", "/", "b", "/", "c">> >>}

\* C9 as stated: with /* registered every request path is found, the root
\* path included
C9_RootCatchAllMatchesAll ==
    split_path(P_star) \in RegisteredPatterns /\ query # NoQuery
        => result.found

\* The part of C9 the code does: every path of at least one segment
C9_RootCatchAllNonRoot ==
    /\ split_path(P_star) \in RegisteredPatterns
    /\ query # NoQuery
    /\ split_path(query) # <<>>
    => result.found

-----------------------------------------------------------------------------
(* Claims about Router::route, its middleware chain and its matching *)

Dispatched == returned # "none"

\* The middlewares of the events of one kind, in the order of the events
RECURSIVE EventsOf(_, _)
EventsOf(kind, evs) ==
    IF evs = <<>> THEN <<>>
    ELSE (IF Head(evs)[1] = kind THEN <<Head(evs)[2]>> ELSE <<>>)
         \o EventsOf(kind, Tail(evs))

Reverse(s) == [i \in 1..Len(s) |-> s[Len(s) + 1 - i]]

Positions(kinds) == {i \in 1..Len(events) : events[i][1] \in kinds}

\* The place in the chain of the first middleware made to refuse, 0 if none
FirstRefusal ==
    FirstIndex({i \in 1..Len(dispatched.chain) :
                    dispatched.chain[i] \in dispatched.deny})

HandlerRan == Positions({"handler", "not_found"}) # {}

\* C1: middleware order. Globals [A, B], route-scoped [C] on the matched
\* route and no before refusing give exactly A.before, B.before, C.before,
\* handler, C.after, B.after, A.after; in every dispatch each before
\* precedes the handler, the handler precedes each after, and the after
\* hooks run in the reverse of the order of the before hooks (all of them
\* when no before refused).
C1_MiddlewareOrder ==
    Dispatched =>
        /\ /\ middlewares_ = <<"A", "B">>
           /\ dispatched.entry # 0
           /\ routes_[dispatched.entry].middlewares = <<"C">>
           /\ dispatched.deny = {}
           => events = << <<"before", "A">>, <<"before", "B">>,
                          <<"before", "C">>,
                          <<"handler",
                            routes_[dispatched.entry].handlers[request.method]>>,
                          <<"after", "C">>, <<"after", "B">>,
                          <<"after", "A">> >>
        /\ \A b \in Positions({"before"}) :
                \A h \in Positions({"handler", "not_found"}) : b < h
        /\ \A h \in Positions({"handler", "not_found"}) :
                \A a \in Positions({"after"}) : h < a
        /\ \A b \in Positions({"before"}) :
                \A a \in Positions({"after"}) : b < a
        /\ LET before == EventsOf("before", events)
               after == EventsOf("after", events)
           IN /\ Len(after) <= Len(before)
              /\ Reverse(after) = SubSeq(before, 1, Len(after))
              /\ dispatched.should_continue =>
                    /\ before = dispatched.chain
                    /\ after = Reverse(before)

\* C1 witness: the dispatch of the example has run
C1_Witness ==
    /\ Dispatched
    /\ middlewares_ = <<"A", "B">>
    /\ dispatched.entry # 0
    /\ routes_[dispatched.entry].middlewares = <<"C">>
    /\ dispatched.deny = {}
    /\ Len(events) = 7

EntryBindings(entry, path) ==
    PatBindings(split_path(entry.pattern), split_path(path))

\* C6 as stated: after a dispatch the path parameters of the request are
\* the bindings of the selected route and nothing else, and none when no
\* route was selected
C6_ParamsOfSelectedRoute ==
    Dispatched =>
        IF dispatched.entry # 0
        THEN ParamPairs(request.path_params)
                = EntryBindings(routes_[dispatched.entry], request.path)
        ELSE ParamPairs(request.path_params) = {}

\* The part of C6 the code does: the bindings of the selected route are
\* among the path parameters, and a route that is the only route matching
\* the path gives exactly its bindings
C6_SelectedBindingsPresent ==
    Dispatched /\ dispatched.entry # 0 =>
        /\ EntryBindings(routes_[dispatched.entry], request.path)
                \subseteq ParamPairs(request.path_params)
        /\ /\ Len(routes_) = 1
           /\ routes_[1].pattern = P_users_id_posts_pid
           /\ request.path = P_users_42_posts_7
           => ParamPairs(request.path_params)
                = {<< <<"i", "d">>, <<"4", "2">> >>,
                   << <<"p", "i", "d">>, <<"7">> >>}

\* What the pattern of a route entry matches
EntryMatches(entry, path) ==
    \/ entry.pattern = path
    \/ /\ has_param(entry.pattern)
       /\ PatMatches(split_path(entry.pattern), split_path(path), 1)

\* The request path is registered, and no route that matches it has a
\* handler for the request method
RegisteredForOtherMethodsOnly ==
    /\ \E i \in 1..Len(routes_) :
            /\ routes_[i].pattern = request.path
            /\ DOMAIN routes_[i].handlers # {}
    /\ \A i \in 1..Len(routes_) :
            EntryMatches(routes_[i], request.path)
                => request.method \notin DOMAIN routes_[i].handlers

\* C10: method isolation. A request for a path registered only for other
\* methods is not found: no route handler is invoked, route returns false,
\* and (no before hook having refused) the 404 handler is invoked, giving
\* status 404 and the default HTML body when no override is set.
C10_MethodIsolation ==
    Dispatched /\ RegisteredForOtherMethodsOnly =>
        /\ Positions({"handler"}) = {}
        /\ returned = "false"
        /\ dispatched.entry = 0
        /\ dispatched.should_continue =>
            /\ Cardinality(Positions({"not_found"})) = 1
            /\ \A i \in Positions({"not_found"}) :
                    events[i] = <<"not_found", not_found_handler_>>
            /\ response.status = 404
            /\ not_found_handler_ = "default_404" =>
                /\ response.body = Default404Body
                /\ response.content_type = "text/html; charset=utf-8"

\* C10 witness: POST /data is registered and GET /data got the default 404
C10_Witness ==
    /\ Dispatched
    /\ Len(routes_) = 1
    /\ routes_[1].pattern = P_data
    /\ DOMAIN routes_[1].handlers = {"POST"}
    /\ request.method = "GET"
    /\ request.path = P_data
    /\ returned = "false"
    /\ response.status = 404
    /\ response.body = Default404Body

-----------------------------------------------------------------------------
(* Claims about the outcome of Router::route *)

\* Some route matches the path of the request and has a handler for its
\* method
RouteExists ==
    \E i \in 1..Len(routes_) :
        /\ EntryMatches(routes_[i], request.path)
        /\ request.method \in DOMAIN routes_[i].handlers

\* C11: 404 handling. A request that matches no route (no before hook
\* having refused) invokes the configured 404 handler once: the default one
\* gives status 404, content type text/html; charset=utf-8 and the fixed
\* HTML body, an override gives what it sets; the after hooks of the whole
\* chain then run, the response keeps what the 404 handler produced, and
\* route returns false.
C11_NotFoundHandling ==
    Dispatched /\ ~RouteExists =>
        /\ returned = "false"
        /\ dispatched.entry = 0
        /\ Positions({"handler"}) = {}
        /\ dispatched.should_continue =>
            /\ Positions({"not_found"}) = {Len(dispatched.chain) + 1}
            /\ events[Len(dispatched.chain) + 1]
                    = <<"not_found", not_found_handler_>>
            /\ response = call_not_found(not_found_handler_, NewResponse)
            /\ response.status = 404
            /\ not_found_handler_ = "default_404" =>
                /\ response.content_type = "text/html; charset=utf-8"
                /\ response.body
                        = "<html><body><h1>404 Not Found</h1></body></html>"
            /\ not_found_handler_ # "default_404" =>
                    response.body # Default404Body
            /\ EventsOf("after", events) = Reverse(dispatched.chain)
            /\ \A a \in Positions({"after"}) : a > Len(dispatched.chain) + 1

\* C11 witness: no route for /zz, the override ran between the hooks of A
C11_Witness ==
    /\ Dispatched
    /\ request.path = P_zz
    /\ not_found_handler_ = "custom_404"
    /\ events = << <<"before", "A">>, <<"not_found", "custom_404">>,
                   <<"after", "A">> >>
    /\ response.status = 404
    /\ returned = "false"

\* C13: route returns true iff some route matches the path and has a handler
\* for the method, whether or not a before hook refused: a matched route
\* whose handler was skipped still gives true, an unmatched request false.
C13_ReturnsWhetherFound ==
    Dispatched =>
        /\ returned \in {"true", "false"}
        /\ returned = "true" <=> RouteExists
        /\ returned = "true" <=> dispatched.entry # 0
        /\ ~dispatched.should_continue /\ RouteExists => returned = "true"

\* C13 witness: the route was found, A refused, the handler was skipped and
\* route returned true
C13_Witness ==
    /\ Dispatched
    /\ RouteExists
    /\ dispatched.deny = {"A"}
    /\ ~dispatched.should_continue
    /\ ~HandlerRan
    /\ returned = "true"

\* C13 witness of the other side: no route, no refusal, false returned
C13_WitnessUnmatched ==
    /\ Dispatched
    /\ ~RouteExists
    /\ dispatched.should_continue
    /\ returned = "false"

\* The middlewares registered with use(path, m) under exactly this path
PathScoped(path) ==
    LET ps == {i \in 1..Len(routes_) : routes_[i].pattern = path}
    IN IF ps = {} THEN <<>>
       ELSE routes_[CHOOSE i \in ps : \A j \in ps : i <= j].middlewares

\* C14 as stated: the chain of every dispatch is the global middlewares,
\* then the middlewares registered under the exact request path, then the
\* middlewares of the matched entry (when it is another entry); a middleware
\* registered under a path runs for every request for that path, also when
\* no handler is found
C14_ChainAssembly ==
    Dispatched =>
        /\ dispatched.chain
              = middlewares_ \o PathScoped(request.path)
                \o (IF /\ dispatched.entry # 0
                        /\ routes_[dispatched.entry].pattern # request.path
                     THEN routes_[dispatched.entry].middlewares ELSE <<>>)
        /\ dispatched.deny = {} =>
                \A k \in 1..Len(PathScoped(request.path)) :
                    <<"before", PathScoped(request.path)[k]>>
                        \in {events[j] : j \in 1..Len(events)}

\* The part of C14 the code does: the global middlewares, then the
\* middlewares of the entry found, and none of a path without a handler
\* for the method of the request
C14_ChainOfEntryFound ==
    Dispatched =>
        dispatched.chain
          = middlewares_ \o (IF dispatched.entry # 0
                             THEN routes_[dispatched.entry].middlewares
                             ELSE <<>>)

-----------------------------------------------------------------------------
(* Claims about the shape of the radix tree, checked under SpecTree *)

\* The nodes of the tree under a node, the node included
RECURSIVE NodesOf(_)
NodesOf(node) ==
    {node} \cup UNION {NodesOf(node.children_[i]) :
                            i \in 1..Len(node.children_)}

ChildrenOfType(node, type) ==
    {i \in 1..Len(node.children_) : node.children_[i].type_ = type}

\* C15: after any sequence of inserts every node has at most one PARAM child
\* and at most one CATCH_ALL child, no two STATIC children of a node have
\* the same literal segment, and the children of every node are sorted
\* ascending by class (STATIC, then PARAM, then CATCH_ALL).
C15_ShapeInvariants ==
    \A n \in NodesOf(root_) :
        /\ Cardinality(ChildrenOfType(n, PARAM)) <= 1
        /\ Cardinality(ChildrenOfType(n, CATCH_ALL)) <= 1
        /\ \A i, j \in ChildrenOfType(n, STATIC) :
                n.children_[i].path_ = n.children_[j].path_ => i = j
        /\ \A i, j \in 1..Len(n.children_) :
                i < j => n.children_[i].type_ <= n.children_[j].type_
        /\ \A i \in 1..Len(n.children_) :
                n.children_[i].type_ \in {STATIC, PARAM, CATCH_ALL}

\* C15 witness: three inserts gave one node a child of each class
C15_Witness ==
    /\ nins = 3
    /\ \E n \in NodesOf(root_) :
            /\ Len(n.children_) = 3
            /\ n.children_[1].type_ = STATIC
            /\ n.children_[2].type_ = PARAM
            /\ n.children_[3].type_ = CATCH_ALL

\* C15 witness of the reuse: /a/:x and /a/:x/c went through one PARAM child
C15_WitnessReuse ==
    /\ {split_path(P_a_px), split_path(P_a_px_c)} \subseteq RegisteredPatterns
    /\ \E n \in NodesOf(root_) :
            /\ Cardinality(ChildrenOfType(n, PARAM)) = 1
            /\ \E i \in ChildrenOfType(n, PARAM) :
                    /\ is_leaf(n.children_[i])
                    /\ Len(n.children_[i].children_) = 1

\* The STATIC children of a node keep their order from one tree to the
\* next, and the STATIC children the next tree adds come after them
RECURSIVE OrderKept(_, _)
OrderKept(old, new) ==
    LET oldStatic == {old.children_[i].path_ :
                            i \in ChildrenOfType(old, STATIC)}
    IN /\ \A s, t \in ChildrenOfType(new, STATIC) :
            /\ new.children_[s].path_ \in oldStatic
            /\ new.children_[t].path_ \notin oldStatic
            => s < t
       /\ \A i, j \in ChildrenOfType(old, STATIC) :
            i < j => find_static_child(new, old.children_[i].path_)
                        < find_static_child(new, old.children_[j].path_)
       /\ \A i \in 1..Len(old.children_) :
            LET k == find_child_of_type(new, old.children_[i].type_,
                                        old.children_[i].path_)
            IN k # 0 /\ OrderKept(old.children_[i], new.children_[k])

\* C16 as stated: within one class the children of a node are kept in
\* insertion order: a STATIC child created by an insert comes after the
\* STATIC children the node already had
C16_InsertionOrderWithinClass == [][OrderKept(root_, root_')]_vars

-----------------------------------------------------------------------------
(* Claims about parameter names, checked under SpecNames *)

\* The node at a place of the tree, NewNode when there is none
RECURSIVE NodeAtKey(_, _)
NodeAtKey(node, key) ==
    IF key = <<>> THEN node
    ELSE LET k == find_child_of_type(node, Head(key)[1], Head(key)[2])
         IN IF k = 0 THEN NewNode ELSE NodeAtKey(node.children_[k], Tail(key))

\* The PARAM and CATCH_ALL nodes along a pattern carry the names the
\* pattern gives them
NamesWritten(root, pat) ==
    \A i \in 1..Len(pat) :
        LET parsed == parse_segment(pat[i])
        IN parsed.type # STATIC =>
            NodeAtKey(root, SubSeq(PatternKey(pat), 1, i)).param_name_
                = parsed.name

\* C17 as stated: parameter name last-writer-wins. An insert leaves the
\* PARAM and CATCH_ALL nodes along its pattern with the names of its
\* pattern, also when it reuses a child that had another name
C17_LastWriterWins ==
    [][\A r \in registered' \ registered :
            NamesWritten(root_', split_path(r[2]))]_vars

\* What the code does: the name of a PARAM or CATCH_ALL node never changes
\* once the node exists, and a find binds under that first name
C17_FirstWriterWins ==
    [][\A p \in RegisteredPatterns :
        \A i \in 1..Len(p) :
            LET key == SubSeq(PatternKey(p), 1, i)
            IN NodeAtKey(root_', key).param_name_
                    = NodeAtKey(root_, key).param_name_]_vars

-----------------------------------------------------------------------------
(* Claims about a handler that fails, checked under SpecFailure *)

\* The dispatch invoked a route handler that throws
HandlerThrew ==
    \E i \in Positions({"handler"}) : throws(events[i][2])

\* C18 as stated: when the route handler fails abnormally the router
\* catches the failure, the response becomes a 500 response, the after
\* hooks still run and the failure does not leave route
C18_ExceptionContained ==
    Dispatched /\ HandlerThrew =>
        /\ returned \in {"true", "false"}
        /\ response.status = 500
        /\ EventsOf("after", events) = Reverse(EventsOf("before", events))

\* What the code does: the throw leaves route at once, with no after hook
\* and the response as it was; a handler that does not throw is followed by
\* the after hooks
C18_ThrowLeavesRoute ==
    Dispatched =>
        IF HandlerThrew
        THEN /\ returned = "exception"
             /\ Positions({"after"}) = {}
             /\ response = NewResponse
        ELSE /\ returned \in {"true", "false"}
             /\ EventsOf("after", events)
                    = Reverse(EventsOf("before", events))

-----------------------------------------------------------------------------
(* Claims about HttpServerBuilder, checked under SpecBuilder *)

RecognizedLevels == {"trace", "debug", "info", "warn", "error"}

\* What ServerConfig::validate refuses: port 0, thread count 0, or a log
\* level that is not recognized
InvalidConfig(config) ==
    \/ config.port_ = 0
    \/ config.num_threads_ = 0
    \/ config.log_level_ \notin RecognizedLevels

\* C19 as stated: with port 0, thread count 0 or an unrecognized log level
\* build() returns no server handle, and run() returns without starting a
\* listener
C19_InvalidConfigRefused ==
    run_pc # "none" /\ InvalidConfig(server.config) =>
        /\ server.handle = "null"
        /\ ~server.start_called
        /\ run_pc # "waiting"

\* What the code does: the handle build() returns depends on daemonize and
\* bind alone, never on the port, the thread count or the log level
C19_HandleIffBound ==
    run_pc # "none" => (server.handle = "server" <=> server.bind = "ok")

\* C20: bind failure is fatal to run. When bind returns false, build()
\* returns a null handle, and run() returns without calling start() and
\* without entering its wait loop.
C20_BindFailureFatal ==
    run_pc # "none" /\ server.bind = "failed" =>
        /\ server.handle = "null"
        /\ ~server.start_called
        /\ run_pc \in {"built", "returned"}
        /\ routes_ = <<>>

\* C20 witness: run() was called, bind failed, run returned
C20_Witness ==
    /\ run_pc = "returned"
    /\ server.bind = "failed"
    /\ server.handle = "null"
    /\ ~server.start_called
    /\ builder.routes_ # <<>>

\* C20 witness of the other outcome: bind succeeded and run waits
C20_WitnessBound ==
    /\ run_pc = "waiting"
    /\ server.bind = "ok"
    /\ server.start_called

-----------------------------------------------------------------------------
(* Claims about registering again, checked under SpecOverwrite *)

\* The number of nodes of the tree under a node, the node included
RECURSIVE CountNodes(_)
RECURSIVE CountChildren(_, _)
CountChildren(children, i) ==
    IF i > Len(children) THEN 0
    ELSE CountNodes(children[i]) + CountChildren(children, i + 1)

CountNodes(node) == 1 + CountChildren(node.children_, 1)

\* The places of the tree the registered patterns go through, the root
\* included
RegisteredPlaces ==
    {<<>>} \cup UNION {{SubSeq(PatternKey(p), 1, i) : i \in 0..Len(p)} :
                            p \in RegisteredPatterns}

\* C12: overwrite semantics. After any sequence of registrations the
\* handler kept, and invoked, for (method, path) is the one of the last
\* registration of that (method, path), in the router and in the tree;
\* registering again creates no second route entry and no second tree node;
\* the same holds for the registrations the builder replays in build().
C12_OverwriteSemantics ==
    /\ \A k \in DOMAIN latest.router :
            LET i == find_pattern(routes_, k[2])
            IN /\ i # 0
               /\ k[1] \in DOMAIN routes_[i].handlers
               /\ routes_[i].handlers[k[1]] = latest.router[k]
    /\ \A i, j \in 1..Len(routes_) :
            routes_[i].pattern = routes_[j].pattern => i = j
    /\ \A k \in DOMAIN latest.tree :
            LET n == NodeAtKey(root_, PatternKey(split_path(k[2])))
            IN /\ k[1] \in DOMAIN n.handlers_
               /\ n.handlers_[k[1]] = latest.tree[k]
    /\ CountNodes(root_) = Cardinality(RegisteredPlaces)
    /\ Dispatched /\ <<request.method, request.path>> \in DOMAIN latest.router
            => events = << <<"handler",
                             latest.router[<<request.method, request.path>>]>> >>
    /\ \A m \in Methods :
            query # NoQuery /\ <<m, query>> \in DOMAIN latest.tree
                => /\ result.found
                   /\ NodeAt(root_, result.node).handlers_[m]
                        = latest.tree[<<m, query>>]

\* C12 witness: the builder was given (GET, /x) with h1 and then with h2,
\* build() replayed both, the router has one entry and the request got h2
C12_Witness ==
    /\ builder.routes_
          = << [method |-> "GET", path |-> P_x, handler |-> "h1"],
               [method |-> "GET", path |-> P_x, handler |-> "h2"] >>
    /\ server.handle = "server"
    /\ Len(routes_) = 1
    /\ Dispatched
    /\ request.method = "GET"
    /\ events = << <<"handler", "h2">> >>

\* C12 witness in the tree: (GET, /x) inserted three times, one node below
\* the root, and find gives the node with the last handler
C12_WitnessTree ==
    /\ nins = 3
    /\ registered = {<<"GET", P_x>>}
    /\ CountNodes(root_) = 2
    /\ query = P_x
    /\ result.found

-----------------------------------------------------------------------------
(* C21, C22 : the life cycle of a server under run() *)

RegistrationCalls == {"use", "add_route", "set_not_found_handler"}

\* Every call of kind a on the server comes before every call of kind b
Precedes(calls, as, bs) ==
    \A i, j \in 1..Len(calls) :
        calls[i] \in as /\ calls[j] \in bs => i < j

\* C21 : in every run(), the add_route, use and set_not_found_handler calls
\* on the router of the server are made before start() is called, and once
\* the server is started no step, a dispatch included, changes the route
\* table, the global middlewares or the 404 handler.
C21_RegistrationPrecedesStart ==
    [][/\ Precedes(server'.calls, RegistrationCalls, {"start"})
       /\ (Serving => UNCHANGED routerVars)]_vars

\* A request was dispatched by a started server that has a route, a global
\* middleware and a 404 handler of its own
C21_Witness ==
    /\ Serving
    /\ server.start_called
    /\ \E i \in 1..Len(server.calls) : server.calls[i] = "add_route"
    /\ \E i \in 1..Len(server.calls) : server.calls[i] = "use"
    /\ \E i \in 1..Len(server.calls) :
            server.calls[i] = "set_not_found_handler"
    /\ routes_ # <<>>
    /\ middlewares_ # <<>>
    /\ not_found_handler_ = "builder_404"
    /\ returned = "true"

\* C22 : when a shutdown signal ends the process after run() started the
\* server, a stop of the server came before the exit.
C22_OrderlyShutdown ==
    run_pc = "exited" =>
        /\ \E i \in 1..Len(server.calls) : server.calls[i] = "stop"
        /\ Precedes(server.calls, {"stop"}, {"exit(0)"})

\* What the code does: the exit is the call that follows start, with
\* code 0, whether or not a dispatch is in progress
C22_ExitFollowsStart ==
    run_pc = "exited" =>
        /\ Len(server.calls) >= 2
        /\ server.calls[Len(server.calls)] = "exit(0)"
        /\ server.calls[Len(server.calls) - 1] = "start"

C22_WitnessInFlight == run_pc = "exited" /\ returned # "none"

-----------------------------------------------------------------------------
(* C23 : the order of the tiers of Router::find_route *)

\* A static route for the method and the path was registered by add_route
StaticRegistered(method, path) ==
    <<method, path>> \in DOMAIN latest.router /\ ~has_param(path)

\* A parameter route for the method that matches the path was registered by
\* add_route
ParamRegistered(method, path) ==
    \E k \in DOMAIN latest.router :
        /\ k[1] = method
        /\ has_param(k[2])
        /\ PatMatches(split_path(k[2]), split_path(path), 1)

\* The regex entries that fully match the path and have a handler for the
\* method
RegexCandidates(method, path) ==
    {i \in 1..Len(routes_) :
        /\ routes_[i].type = "REGEX"
        /\ regex_match(path, routes_[i].regex).ok
        /\ method \in DOMAIN routes_[i].handlers}

\* C23 : a static route registered for the method with exactly the path of
\* the request is selected ahead of any parameter route, a parameter route
\* registered for the method that matches is selected ahead of any regex
\* route, whatever the order of the registrations, and among the regex
\* routes the first in registration order that fully matches and has a
\* handler for the method is selected.
C23_MatcherTierOrder ==
    Dispatched =>
        IF StaticRegistered(request.method, request.path)
        THEN /\ dispatched.entry # 0
             /\ routes_[dispatched.entry].pattern = request.path
        ELSE IF ParamRegistered(request.method, request.path)
        THEN /\ dispatched.entry # 0
             /\ has_param(routes_[dispatched.entry].pattern)
        ELSE dispatched.entry
                = FirstIndex(RegexCandidates(request.method, request.path))

\* The entries of a type that match the path and have a handler for the
\* method
TierCandidates(type, method, path) ==
    {i \in 1..Len(routes_) :
        /\ routes_[i].type = type
        /\ IF type = "STATIC" THEN routes_[i].pattern = path
           ELSE regex_match(path, routes_[i].regex).ok
        /\ method \in DOMAIN routes_[i].handlers}

\* What the code does: the tiers are ordered by the type of the entries of
\* the table, and an entry keeps the type it was created with
C23_TierOrderOfEntries ==
    Dispatched =>
        LET S == TierCandidates("STATIC", request.method, request.path)
            P == TierCandidates("PARAM", request.method, request.path)
            R == TierCandidates("REGEX", request.method, request.path)
        IN dispatched.entry = IF S # {} THEN FirstIndex(S)
                              ELSE IF P # {} THEN FirstIndex(P)
                              ELSE FirstIndex(R)

\* A static route registered after a parameter route that matches the
\* same request was selected
C23_WitnessStaticOverParam ==
    /\ Dispatched
    /\ Len(routes_) = 2
    /\ routes_[1].type = "PARAM"
    /\ routes_[2].type = "STATIC"
    /\ request.method \in DOMAIN routes_[1].handlers
    /\ request.path = P_data
    /\ dispatched.entry = 2

\* The static route /data was registered on the entry of the regex /data,
\* and the parameter route was selected
C23_WitnessStaticOnRegexEntry ==
    /\ Dispatched
    /\ StaticRegistered(request.method, request.path)
    /\ dispatched.entry # 0
    /\ routes_[dispatched.entry].type = "PARAM"

-----------------------------------------------------------------------------
(* C24 : what RadixTree::find returns *)

\* C24 : find returns found = true only with a node whose handler map is
\* not empty, and found = false with no node; the root path is found
\* exactly when the root has a handler, whatever is registered below it.
C24_FoundImpliesLeaf ==
    query # NoQuery =>
        /\ result.found =>
                /\ result.node # NullNode
                /\ is_leaf(NodeAt(root_, result.node))
        /\ ~result.found => result.node = NullNode
        /\ split_path(query) = <<>> => (result.found <=> is_leaf(root_))

\* The root path was not found in a tree that has routes below a root
\* without a handler
C24_Witness ==
    /\ query \in {P_root, P_ss}
    /\ root_.children_ # <<>>
    /\ ~is_leaf(root_)
    /\ ~result.found
    /\ result.node = NullNode

\* The root path was found at a root that has a handler
C24_WitnessRootLeaf ==
    /\ query = P_root
    /\ result.found
    /\ result.node = <<>>

-----------------------------------------------------------------------------
(* C25 : empty segments of a path *)

\* A route registered in the tree is found by every request that has its
\* segments, however the slashes are written
TreeNormalized ==
    query # NoQuery =>
        \A r \in registered :
            split_path(r[2]) = split_path(query) => result.found

\* A route registered in the router for the method of the request is
\* selected by every request that has its segments
RouterNormalized ==
    Dispatched =>
        \A k \in DOMAIN latest.router :
            /\ k[1] = request.method
            /\ split_path(k[2]) = split_path(request.path)
            => returned = "true"

\* C25 : empty segments are dropped at registration and at lookup: a route
\* registered as /a/b is matched by /a/b, /a/b/ and /a//b, a route
\* registered as /a/b/ by /a/b, and a route registered as / by every path
\* without segments.
C25_PathNormalization == TreeNormalized /\ RouterNormalized

\* What the code does in the tree: C25 for RadixTree::insert and
\* RadixTree::find
C25_TreeNormalization == TreeNormalized

\* What the code does in the router: a static route is selected by the
\* requests whose path is its pattern, character by character
C25_RouterExactPath ==
    Dispatched =>
        (returned = "true" <=>
            \E k \in DOMAIN latest.router :
                k[1] = request.method /\ k[2] = request.path)

\* /a/b/ and /a//b were found in a tree whose only route is /a/b
C25_WitnessTree ==
    /\ {r[2] : r \in registered} = {P_a_b}
    /\ query \in {P_a_b_s, P_a__b}
    /\ result.found

\* /a/b was found in a tree whose only route is /a/b/
C25_WitnessTreeTrailing ==
    /\ {r[2] : r \in registered} = {P_a_b_s}
    /\ query = P_a_b
    /\ result.found

\* The router did not select the route /a/b for the request /a/b/
C25_WitnessRouter ==
    /\ Dispatched
    /\ <<"GET", P_a_b>> \in DOMAIN latest.router
    /\ request.method = "GET"
    /\ request.path = P_a_b_s
    /\ returned = "false"

-----------------------------------------------------------------------------
(* C26 : what build() leaves of the builder *)

\* The step is a call of build() or run(): it made a server or a
\* scheduler, or build() or run() returned
BuildStep ==
    \/ [server' EXCEPT !.builds = 0] # [server EXCEPT !.builds = 0]
    \/ server'.builds # 0
    \/ run_pc' \notin {run_pc, "exited"}
    \/ builder'.io_scheduler_ # builder.io_scheduler_

\* C26 : a call of build() leaves the host, the port, the thread count,
\* the TLS settings, the middleware list, the route list and the 404
\* override of the builder as they were, and a successful build() that
\* follows a successful build() of the same builder gives a router with
\* the same routes, the same global middlewares in the same order and the
\* same 404 handler.
C26_BuildIdempotentInInputs ==
    [][BuildStep =>
        /\ InputsOf(builder') = InputsOf(builder)
        /\ server'.builds = 2 => routerVars' = routerVars]_vars

\* A builder with a route, a middleware and a 404 override was built
\* twice in a row, both times with success
C26_Witness ==
    /\ server.builds = 2
    /\ server.handle = "server"
    /\ run_pc = "built"
    /\ builder.routes_ # <<>>
    /\ builder.middlewares_ # <<>>
    /\ builder.not_found_handler_ # ""
    /\ routes_ # <<>>
    /\ middlewares_ # <<>>
    /\ not_found_handler_ = "builder_404"

-----------------------------------------------------------------------------
(* C27 : the handlers of one dispatch *)

\* C27 : when no before hook refuses, a dispatch invokes exactly one of
\* the handler of the route and the 404 handler, once, and it is the
\* handler of the route exactly when some route matches the request and
\* has a handler for its method; when a before hook refuses it invokes
\* neither.
C27_HandlerExclusivity ==
    Dispatched =>
        IF FirstRefusal = 0
        THEN /\ Cardinality(Positions({"handler", "not_found"})) = 1
             /\ Positions({"handler"}) # {} <=> RouteExists
        ELSE Positions({"handler", "not_found"}) = {}

\* The handler of the route ran once, between the hooks of two
\* middlewares, and the 404 handler did not
C27_Witness ==
    /\ Dispatched
    /\ Len(dispatched.chain) = 2
    /\ FirstRefusal = 0
    /\ Cardinality(Positions({"handler"})) = 1
    /\ Positions({"not_found"}) = {}
    /\ returned = "true"

\* The 404 handler ran once and no handler of a route
C27_WitnessNotFound ==
    /\ Dispatched
    /\ routes_ # <<>>
    /\ FirstRefusal = 0
    /\ Cardinality(Positions({"not_found"})) = 1
    /\ Positions({"handler"}) = {}

\* A hook refused: neither ran, for a request with a route and for one
\* without
C27_WitnessRefused ==
    /\ Dispatched
    /\ FirstRefusal # 0
    /\ RouteExists
    /\ events # <<>>
    /\ Positions({"handler", "not_found"}) = {}

-----------------------------------------------------------------------------
(* C28 : the methods of the node RadixTree::find returns *)

\* C28 : when a registered route matches the path of the request and was
\* registered for a method, find returns a node that has a handler for
\* that method; a node of higher priority that matches the path and lacks
\* the method does not hide the route.
C28_MethodAwareCompleteness ==
    query # NoQuery =>
        \A r \in registered :
            PatMatches(split_path(r[2]), split_path(query), 1) =>
                /\ result.found
                /\ r[1] \in DOMAIN NodeAt(root_, result.node).handlers_

\* What the code does: find takes no method; it returns a node when some
\* registered route matches the path, and the node is that of a route
\* that matches, whatever its methods
C28_SomeMatchingRoute ==
    query # NoQuery =>
        /\ (\E r \in registered :
                PatMatches(split_path(r[2]), split_path(query), 1))
            => result.found
        /\ result.found =>
            \E r \in registered :
                /\ PatMatches(split_path(r[2]), split_path(query), 0)
                /\ NodeKey(root_, result.node)
                        = PatternKey(split_path(r[2]))

\* /a/b has GET only and /a/:x has POST only: find(/a/b) returned the
\* node of /a/b, which has no handler for POST
C28_WitnessHidden ==
    /\ registered = {<<"GET", P_a_b>>, <<"POST", P_a_px>>}
    /\ query = P_a_b
    /\ result.found
    /\ DOMAIN NodeAt(root_, result.node).handlers_ = {"GET"}

-----------------------------------------------------------------------------
(* C29 : the order of the registrations *)

\* What a lookup in a tree gives: whether a route was found, the place of
\* its node and the bindings
LookupOf(root, path) ==
    LET m == find(root, path)
    IN [found |-> m.found,
        place |-> IF m.found THEN NodeKey(root, m.node) ELSE <<>>,
        params |-> ParamPairs(m.params)]

\* The tree two registrations give, made in the order r1, r2
TreeOf(r1, r2) ==
    insert(insert(NewNode, r1[1], r1[2], "h1"), r2[1], r2[2], "h1")

\* Two routes were inserted: the lookup gives what it gives in the tree
\* of the same two routes inserted in the other order
TreeOrderIndependent ==
    nins = 2 /\ Cardinality(registered) = 2 /\ query # NoQuery =>
        \A r1, r2 \in registered :
            r1 # r2 => LookupOf(TreeOf(r1, r2), query)
                            = LookupOf(TreeOf(r2, r1), query)

\* What a lookup in a route table gives: the pattern of the entry
\* selected and the bindings
SelectionOf(routes, path, method) ==
    LET f == find_route(routes, path, method, EmptyParams)
    IN [pattern |-> IF f.entry # 0 THEN routes[f.entry].pattern ELSE <<>>,
        params |-> ParamPairs(f.params)]

\* Two routes are in the table: the dispatch selected what it selects in
\* the table of the same two routes registered in the other order
RouterOrderIndependent ==
    Dispatched /\ Len(routes_) = 2 =>
        SelectionOf(routes_, request.path, request.method)
            = SelectionOf(Reverse(routes_), request.path, request.method)

\* C29 : two routes with different (method, pattern) registered in either
\* order give the same lookup result for every request: the same route
\* and the same bindings, names included.
C29_OrderIndependence == TreeOrderIndependent /\ RouterOrderIndependent

\* /a/:x was inserted before /a/:y/c, and /a/b/c was found with x bound
C29_WitnessTree ==
    /\ nins = 2
    /\ {r[2] : r \in registered} = {P_a_px, P_a_py_c}
    /\ query = P_a_b_c
    /\ result.found
    /\ DOMAIN result.params = {<<"x">>}

\* the same routes inserted in the other order: y is bound
C29_WitnessTreeOther ==
    /\ nins = 2
    /\ {r[2] : r \in registered} = {P_a_px, P_a_py_c}
    /\ query = P_a_b_c
    /\ result.found
    /\ DOMAIN result.params = {<<"y">>}

\* Two parameter routes match the request: the one registered first was
\* selected
C29_WitnessRouter ==
    /\ Dispatched
    /\ Len(routes_) = 2
    /\ dispatched.entry = 1
    /\ RouteExists

-----------------------------------------------------------------------------
(* C30 : the 404 handler of a built server and the life of its builder *)

\* The request of the dispatch has no route, and no before hook refused
Unrouted == Dispatched /\ dispatched.entry = 0 /\ dispatched.should_continue

\* C30 : the 404 handler given to not_found() stays invocable by the
\* server build() returned for as long as the server exists, also after
\* the builder is destroyed: the dispatch of a request without a route
\* gets the response of that handler and returns, and the router never
\* invokes a 404 handler that refers to a destroyed builder.
C30_NotFoundOutlivesBuilder ==
    /\ Unrouted /\ not_found_handler_ = "builder_404" =>
            /\ returned = "false"
            /\ response = call_not_found("custom_404", NewResponse)
    /\ Dispatched /\ ~builder.alive =>
            \A i \in Positions({"not_found"}) :
                events[i][2] \notin {"builder_404", "freed_404"}

\* What the code does: while the builder exists the override answers
C30_InvocableWhileBuilderLives ==
    Unrouted /\ not_found_handler_ = "builder_404" /\ builder.alive =>
        /\ returned = "false"
        /\ response = call_not_found("custom_404", NewResponse)
        /\ \E i \in Positions({"not_found"}) :
                events[i] = <<"not_found", "builder_404">>

\* The server was used after its builder was destroyed, and the call of
\* the 404 handler did not come back
C30_WitnessLost ==
    /\ Unrouted
    /\ ~builder.alive
    /\ server.handle = "server"
    /\ returned = "exception"
    /\ events[Len(events)] = <<"not_found", "freed_404">>

\* The same, and the callback was still where the builder had it
C30_WitnessStillThere ==
    /\ Unrouted
    /\ ~builder.alive
    /\ server.handle = "server"
    /\ returned = "false"
    /\ \E i \in Positions({"not_found"}) :
            events[i] = <<"not_found", "builder_404">>

-----------------------------------------------------------------------------
(* C31 : the scheduler of a build that returned no server *)

\* build() or the build() of run() returned nullptr
BuildFailed == run_pc # "none" /\ server.handle = "null"

\* C31 : whenever build() returns a null handle, after a daemonize failure
\* or a bind failure, the I/O scheduler that call created has not been
\* started or was stopped again: a scheduler that build() started and left
\* running exists only together with a server that build() returned.
C31_NoSchedulerLeftByFailedBuild ==
    /\ BuildFailed => server.scheduler # "started"
    /\ run_pc # "none" /\ server.scheduler = "started" =>
            server.handle = "server"

\* What the code does: build() starts a scheduler exactly when it gets past
\* daemonize, keeps it in io_scheduler_, and never stops it
C31_SchedulerStartedPastDaemonize ==
    run_pc # "none" =>
        /\ server.scheduler = "started" <=> server.bind # "none"
        /\ server.scheduler = "started" =>
                builder.io_scheduler_ = "started"

\* A daemonize failure leaves no scheduler and no server of that call
C31_NoneOnDaemonizeFailure ==
    BuildFailed /\ server.bind = "none" =>
        /\ server.scheduler = "none"
        /\ server.calls = <<>>

\* build() returned nullptr because bind failed, and the scheduler it
\* started is running in the builder
C31_WitnessBindFailure ==
    /\ run_pc = "built"
    /\ server.handle = "null"
    /\ server.bind = "failed"
    /\ server.scheduler = "started"
    /\ builder.io_scheduler_ = "started"

\* build() returned nullptr because daemonize failed, and the builder has
\* no scheduler
C31_WitnessDaemonizeFailure ==
    /\ run_pc = "built"
    /\ server.handle = "null"
    /\ server.bind = "none"
    /\ server.scheduler = "none"
    /\ builder.io_scheduler_ = "null"

=============================================================================
